---------------------------- MODULE Spec2Model ----------------------------
(***************************************************************************)
(* Laptop deal finder: extraction of hardware specifications from product  *)
(* titles, scoring of each product against the user's current system and   *)
(* ranking of the scored deals.  Three program variants are modelled:      *)
(*   app.py                 the web app (analyze_deals and                 *)
(*                          analyze_deals_with_filters)                    *)
(*   bestbuy_deal_finder.py the Best Buy command-line tool                 *)
(*   deal_finder.py         the Best Buy / Amazon command-line tool        *)
(*                                                                         *)
(* Conventions of the model                                                *)
(*   - a Python str is a TLA+ string; s[i] is SubSeq(s, i, i);             *)
(*   - a Python dict is a function whose DOMAIN is the set of keys that    *)
(*     are present; d.get(k, default) is Get(d, k, default);               *)
(*   - a price field of a raw record holds a JSON value, a number or an    *)
(*     object: JNum(n) or JDict(d);                                        *)
(*   - screen sizes are floats with at most one decimal in the program;    *)
(*     the model holds them in tenths of an inch (15.6 is 156);            *)
(*   - money amounts are whole numbers.                                    *)
(***************************************************************************)
EXTENDS Integers, Sequences, FiniteSets, TLC

VARIABLES
    products,          \* the raw product records handed to the analyzer
    current_specs,     \* the baseline configuration (a dict)
    min_specs,         \* the minimum requirements (a dict)
    show_all,          \* the show_all argument
    country,           \* the country argument of app.py ("CA" or "US")
    filter_incomplete, \* the filter_incomplete argument of app.py
    fn,                \* the analyzer that ran ("none" before the call)
    outcome,           \* "ready", "returned" or "raised"
    deals,             \* the returned deal list
    skipped,           \* the returned count (app.py only)
    arg,               \* the argument of a call of parse_size, extract_condition
                       \* or extract_specs on its own; the positions scored so
                       \* far where the records are scored in any order
    result             \* the value that call returned

vars == <<products, current_specs, min_specs, show_all, country,
          filter_incomplete, fn, outcome, deals, skipped, arg, result>>

-----------------------------------------------------------------------------
(* Strings *)

Chr(s, i) == SubSeq(s, i, i)

DigitChars == {"0", "1", "2", "3", "4", "5", "6", "7", "8", "9"}

UpperAlpha == "ABCDEFGHIJKLMNOPQRSTUVWXYZ"
LowerAlpha == "abcdefghijklmnopqrstuvwxyz"

UpperChars == {Chr(UpperAlpha, i) : i \in 1..Len(UpperAlpha)}
LowerChars == {Chr(LowerAlpha, i) : i \in 1..Len(LowerAlpha)}

\* \w of the regular expressions (ASCII titles)
WordChars == UpperChars \cup LowerChars \cup DigitChars \cup {"_"}

\* \s of the regular expressions: the titles of the model are one line and
\* hold no tab, so the blank is the only whitespace that occurs
SpaceChars == {" "}

LowerChar(c) ==
    IF c \in UpperChars
    THEN Chr(LowerAlpha, CHOOSE i \in 1..Len(UpperAlpha) : Chr(UpperAlpha, i) = c)
    ELSE c

UpperChar(c) ==
    IF c \in LowerChars
    THEN Chr(UpperAlpha, CHOOSE i \in 1..Len(LowerAlpha) : Chr(LowerAlpha, i) = c)
    ELSE c

\* character by character, the two halves of a long string apart
RECURSIVE StrLower(_)
StrLower(s) ==
    IF Len(s) = 0 THEN ""
    ELSE IF Len(s) = 1 THEN LowerChar(s)
    ELSE StrLower(SubSeq(s, 1, Len(s) \div 2))
         \o StrLower(SubSeq(s, Len(s) \div 2 + 1, Len(s)))

RECURSIVE StrUpper(_)
StrUpper(s) ==
    IF Len(s) = 0 THEN ""
    ELSE IF Len(s) = 1 THEN UpperChar(s)
    ELSE StrUpper(SubSeq(s, 1, Len(s) \div 2))
         \o StrUpper(SubSeq(s, Len(s) \div 2 + 1, Len(s)))

\* str.replace(old, "") for a one-character old
RECURSIVE StrRemove(_, _)
StrRemove(s, c) ==
    IF Len(s) = 0 THEN ""
    ELSE IF Len(s) = 1 THEN (IF s = c THEN "" ELSE s)
    ELSE StrRemove(SubSeq(s, 1, Len(s) \div 2), c)
         \o StrRemove(SubSeq(s, Len(s) \div 2 + 1, Len(s)), c)

\* sub in s
Contains(s, sub) ==
    \E i \in 1..(Len(s) - Len(sub) + 1) : SubSeq(s, i, i + Len(sub) - 1) = sub

\* s.startswith(pre)
StartsWith(s, pre) == Len(s) >= Len(pre) /\ SubSeq(s, 1, Len(pre)) = pre

DigitVal(c) ==
    CASE c = "0" -> 0 [] c = "1" -> 1 [] c = "2" -> 2 [] c = "3" -> 3 [] c = "4" -> 4
      [] c = "5" -> 5 [] c = "6" -> 6 [] c = "7" -> 7 [] c = "8" -> 8 [] c = "9" -> 9

\* int(s) for a string of decimal digits
RECURSIVE ToInt(_)
ToInt(s) ==
    IF Len(s) = 0 THEN 0
    ELSE 10 * ToInt(SubSeq(s, 1, Len(s) - 1)) + DigitVal(Chr(s, Len(s)))

RECURSIVE Pow10(_)
Pow10(n) == IF n = 0 THEN 1 ELSE 10 * Pow10(n - 1)

\* position of the decimal point of a captured magnitude, 0 if it has none
DotPos(s) == IF \E i \in 1..Len(s) : Chr(s, i) = "."
             THEN CHOOSE i \in 1..Len(s) : Chr(s, i) = "."
             ELSE 0

\* the digits before the decimal point of a captured magnitude
WholePart(s) == IF DotPos(s) = 0 THEN s ELSE SubSeq(s, 1, DotPos(s) - 1)

\* the digits behind the decimal point
FractionPart(s) == IF DotPos(s) = 0 THEN "" ELSE SubSeq(s, DotPos(s) + 1, Len(s))

\* float(s) is the double nearest to the decimal s.  A fraction that begins
\* with seventeen nines lies closer to the next whole number than to any
\* other double (below 2^53 the doubles next to a whole number are at least
\* 2^-53 away from it), so float(s) is that whole number
RoundsUp(s) == StartsWith(FractionPart(s), "99999999999999999")

\* float(s) for digits with an optional fraction, as the fraction num / den.
\* Apart from RoundsUp the fraction is the decimal itself: int(float(s)) and
\* int(float(s) * 1024) are those of the decimal when it has at most twelve
\* significant digits, which is so for every magnitude of the model
FloatNum(s) ==
    IF RoundsUp(s) THEN ToInt(WholePart(s)) + 1
    ELSE IF DotPos(s) = 0 THEN ToInt(s)
    ELSE ToInt(WholePart(s)) * Pow10(Len(FractionPart(s))) + ToInt(FractionPart(s))

FloatDen(s) ==
    IF RoundsUp(s) \/ DotPos(s) = 0 THEN 1 ELSE Pow10(Len(FractionPart(s)))

\* digits without their leading zeros
StripZeros(s) ==
    IF \A i \in 1..Len(s) : Chr(s, i) = "0" THEN ""
    ELSE SubSeq(s, CHOOSE i \in 1..Len(s) :
                       /\ Chr(s, i) # "0"
                       /\ \A j \in 1..(i - 1) : Chr(s, j) = "0",
                Len(s))

\* a >= b for digit strings of the same length: they are equal, or a has
\* the greater digit where they first differ
DigitsAtLeast(a, b) ==
    \/ a = b
    \/ \E i \in 1..Len(a) :
           /\ SubSeq(a, 1, i - 1) = SubSeq(b, 1, i - 1)
           /\ DigitVal(Chr(a, i)) > DigitVal(Chr(b, i))

\* the number written a is at least the number written b (no leading zeros)
NumberAtLeast(a, b) == Len(a) > Len(b) \/ (Len(a) = Len(b) /\ DigitsAtLeast(a, b))

\* 2^1024 - 2^970: float(s) is inf from this value on (half way from the
\* largest double to 2^1024, ties going to the even 2^1024)
FloatInfFrom ==
    "179769313486231580793728971405303415079934132710037826936173" \o
    "778980444968292764750946649017977587207096330286416692887910" \o
    "946555547851940402630657488671505820681908902000708383676273" \o
    "854845817711531764475730270069855571366959622842914819860834" \o
    "936475292719074168444365510704342711559699508093042880177904" \o
    "174497792"

\* 2^1014 - 2^960: from this value on float(s) * 1024 is inf
FloatTimes1024InfFrom ==
    "175555970201398028118875948637991616288998176474646315367357" \o
    "206035590789348403077096336931618737506930010045328801648350" \o
    "533745652199160549444001453780767403009676662110066780933861" \o
    "186372868858917738745830341865093331413046506682534003770346" \o
    "617651653045970867621450694047209679257519050872112187673734" \o
    "545408"

\* float(s) is inf, and float(s) * 1024 is
FloatIsInf(s) == NumberAtLeast(StripZeros(WholePart(s)), FloatInfFrom)

FloatTimes1024IsInf(s) == NumberAtLeast(StripZeros(WholePart(s)), FloatTimes1024InfFrom)

-----------------------------------------------------------------------------
(* Regular expressions (Python's re): a backtracking matcher that lists    *)
(* the matches of a pattern at a position in the order Python tries them,  *)
(* so that the first one is the match re.search reports.                   *)

Lit(str)       == [op |-> "lit", s |-> str]
Set(chars)     == [op |-> "set", cs |-> chars, neg |-> FALSE]
NotSet(chars)  == [op |-> "set", cs |-> chars, neg |-> TRUE]
Cat(rs)        == [op |-> "cat", rs |-> rs]
Alt(rs)        == [op |-> "alt", rs |-> rs]
Rep(r, lo, hi) == [op |-> "rep", r |-> r, lo |-> lo, hi |-> hi]
Grp(k, r)      == [op |-> "grp", k |-> k, r |-> r]
WordB          == [op |-> "wb"]
EndS           == [op |-> "eos"]

\* hi = -1: no upper limit on the repetition
Opt(r)    == Rep(r, 0, 1)
Star(r)   == Rep(r, 0, -1)
Plus(r)   == Rep(r, 1, -1)
Digit     == Set(DigitChars)       \* \d
Ws        == Star(Set(SpaceChars)) \* \s*
Ws1       == Plus(Set(SpaceChars)) \* \s+

\* no pattern of the program has more than two groups; <<0, 0>> is a group
\* that did not take part in the match
NoGroups == << <<0, 0>>, <<0, 0>> >>

IsWordAt(s, i) == i >= 1 /\ i <= Len(s) /\ Chr(s, i) \in WordChars

\* the positions from i on where a run of characters of the class ends
RunStops(cs, neg, s, i) ==
    {k \in i..(Len(s) + 1) : k = Len(s) + 1 \/ ((Chr(s, k) \in cs) = neg)}

\* the first of them
RunEnd(stops) == CHOOSE k \in stops : \A j \in stops : k <= j

\* the longest repetition allowed when the run ends at e
RunTop(r, i, e) == IF r.hi >= 0 /\ i + r.hi < e THEN i + r.hi ELSE e

\* the repetitions of a character class at i, the longest first, down to
\* r.lo characters
RunM(r, i, g, top) ==
    [n \in 1..(top - i - r.lo + 1) |-> [e |-> top - n + 1, g |-> g]]

\* the matches res of the body of group k, each with the group recorded
GrpOver(res, k, i) ==
    [n \in 1..Len(res) |-> [e |-> res[n].e, g |-> [res[n].g EXCEPT ![k] = <<i, res[n].e>>]]]

RECURSIVE M(_, _, _, _)
RECURSIVE CatM(_, _, _, _, _)
RECURSIVE CatOver(_, _, _, _)
RECURSIVE AltM(_, _, _, _, _)
RECURSIVE RepM(_, _, _, _, _)
RECURSIVE RepOver(_, _, _, _, _)

\* the matches of r in s that start at i, with the groups g matched so far,
\* each with the position e after it
M(r, s, i, g) ==
    CASE r.op = "lit" ->
           IF i + Len(r.s) - 1 <= Len(s) /\ SubSeq(s, i, i + Len(r.s) - 1) = r.s
           THEN <<[e |-> i + Len(r.s), g |-> g]>> ELSE <<>>
      [] r.op = "set" ->
           IF i <= Len(s) /\ ((Chr(s, i) \in r.cs) # r.neg)
           THEN <<[e |-> i + 1, g |-> g]>> ELSE <<>>
      [] r.op = "wb"  ->
           IF IsWordAt(s, i - 1) # IsWordAt(s, i) THEN <<[e |-> i, g |-> g]>> ELSE <<>>
      [] r.op = "eos" ->
           IF i = Len(s) + 1 THEN <<[e |-> i, g |-> g]>> ELSE <<>>
      [] r.op = "grp" -> GrpOver(M(r.r, s, i, g), r.k, i)
      [] r.op = "cat" -> CatM(r.rs, 1, s, i, g)
      [] r.op = "alt" -> AltM(r.rs, 1, s, i, g)
      [] r.op = "rep" ->
           IF r.r.op = "set"
           THEN RunM(r, i, g, RunTop(r, i, RunEnd(RunStops(r.r.cs, r.r.neg, s, i))))
           ELSE RepM(r, 0, s, i, g)

CatM(rs, j, s, i, g) ==
    IF j > Len(rs) THEN <<[e |-> i, g |-> g]>>
    ELSE CatOver(M(rs[j], s, i, g), rs, j + 1, s)

\* the matches of rs[j..] behind each match of res, in the order of res
\* (the list is split in halves to keep the recursion shallow)
CatOver(res, rs, j, s) ==
    IF Len(res) = 0 THEN <<>>
    ELSE IF Len(res) = 1 THEN CatM(rs, j, s, res[1].e, res[1].g)
    ELSE CatOver(SubSeq(res, 1, Len(res) \div 2), rs, j, s)
         \o CatOver(SubSeq(res, Len(res) \div 2 + 1, Len(res)), rs, j, s)

AltM(rs, j, s, i, g) ==
    IF j > Len(rs) THEN <<>>
    ELSE M(rs[j], s, i, g) \o AltM(rs, j + 1, s, i, g)

\* greedy: one more repetition is tried before stopping
RepM(r, n, s, i, g) ==
    (IF r.hi < 0 \/ n < r.hi THEN RepOver(M(r.r, s, i, g), r, n + 1, s, i) ELSE <<>>)
    \o (IF n >= r.lo THEN <<[e |-> i, g |-> g]>> ELSE <<>>)

RepOver(res, r, n, s, i) ==
    IF res = <<>> THEN <<>>
    ELSE (IF Head(res).e > i THEN RepM(r, n, s, Head(res).e, Head(res).g) ELSE <<>>)
         \o RepOver(Tail(res), r, n, s, i)

RECURSIVE SearchFrom(_, _, _)
RECURSIVE SearchAt(_, _, _, _)

SearchFrom(r, s, i) ==
    IF i > Len(s) + 1 THEN [found |-> FALSE, g |-> NoGroups]
    ELSE SearchAt(M(r, s, i, NoGroups), r, s, i)

\* res: the matches that start at i
SearchAt(res, r, s, i) ==
    IF res # <<>> THEN [found |-> TRUE, g |-> Head(res).g]
    ELSE SearchFrom(r, s, i + 1)

\* a pattern compiled with re.IGNORECASE: its literals are lower-cased here
\* and the text it is matched against is lower-cased by Search (no class of
\* the program's patterns holds a letter)
RECURSIVE Fold(_)
RECURSIVE FoldAll(_)
Fold(r) ==
    CASE r.op = "lit" -> [r EXCEPT !.s = StrLower(r.s)]
      [] r.op = "grp" -> [r EXCEPT !.r = Fold(r.r)]
      [] r.op = "rep" -> [r EXCEPT !.r = Fold(r.r)]
      [] r.op = "cat" -> [r EXCEPT !.rs = FoldAll(r.rs)]
      [] r.op = "alt" -> [r EXCEPT !.rs = FoldAll(r.rs)]
      [] OTHER -> r

FoldAll(rs) == IF rs = <<>> THEN <<>> ELSE <<Fold(Head(rs))>> \o FoldAll(Tail(rs))

IgnoreCase(r) == [op |-> "icase", r |-> Fold(r)]

\* re.search(r, s): the leftmost match, None ([found |-> FALSE]) if there is
\* none; the groups are positions in s
Search(r, s) ==
    IF r.op = "icase" THEN SearchFrom(r.r, StrLower(s), 1) ELSE SearchFrom(r, s, 1)

\* match.group(k) of a match in s
Group(m, s, k) == SubSeq(s, m.g[k][1], m.g[k][2] - 1)

\* match.group(k) is None
NoGroup(m, k) == m.g[k] = <<0, 0>>

Word(str) == Cat(<<WordB, Lit(str), WordB>>)

-----------------------------------------------------------------------------
(* parse_size: the three variants hold the same code *)

NumberRe == Grp(1, Cat(<<Plus(Digit), Opt(Cat(<<Lit("."), Plus(Digit)>>))>>))

\* branches that look for GB first
SizeOfGigabyteFirst(size_str, number) ==
    IF Contains(size_str, "GB") /\ number.found
    THEN FloatNum(Group(number, size_str, 1)) \div FloatDen(Group(number, size_str, 1))
    ELSE IF Contains(size_str, "TB") /\ number.found
    THEN (FloatNum(Group(number, size_str, 1)) * 1024)
         \div FloatDen(Group(number, size_str, 1))
    ELSE 0

\* the two branches, with number = re.search(r'(\d+(?:\.\d+)?)', size_str)
\* for the upper-cased size_str without blanks
SizeOf(size_str, number) ==
    IF Contains(size_str, "TB") /\ number.found
    THEN (FloatNum(Group(number, size_str, 1)) * 1024)
         \div FloatDen(Group(number, size_str, 1))
    ELSE IF Contains(size_str, "GB") /\ number.found
    THEN FloatNum(Group(number, size_str, 1)) \div FloatDen(Group(number, size_str, 1))
    ELSE 0

SizeOfUpper(size_str) == SizeOf(size_str, Search(NumberRe, size_str))

\* int(inf) raises OverflowError, which the except clause of parse_size
\* (ValueError, AttributeError) does not catch
SizeRaises(size_str, number) ==
    IF Contains(size_str, "TB") /\ number.found
    THEN FloatTimes1024IsInf(Group(number, size_str, 1))
    ELSE Contains(size_str, "GB") /\ number.found
         /\ FloatIsInf(Group(number, size_str, 1))

SizeRaisesUpper(size_str) == SizeRaises(size_str, Search(NumberRe, size_str))

\* parse_size(size_str) ends in OverflowError
parse_size_raises(size_str) ==
    size_str # "" /\ SizeRaisesUpper(StrRemove(StrUpper(size_str), " "))

\* the value parse_size(size_str) returns when it does not raise
parse_size(size_str) ==
    IF size_str = "" THEN 0
    ELSE SizeOfUpper(StrRemove(StrUpper(size_str), " "))

-----------------------------------------------------------------------------
(* extract_specs *)

IntelRe == Cat(<<Grp(1, Cat(<<Lit("i"), Digit>>)), Lit("-"), Grp(2, Rep(Digit, 4, 5))>>)

UltraRe == IgnoreCase(Cat(<<Opt(Cat(<<Lit("Core"), Ws1>>)), Lit("Ultra"), Ws,
                          Grp(1, Plus(Digit))>>))

AmdRe == IgnoreCase(Cat(<<Lit("Ryzen"), Ws, Grp(1, Digit), Ws, Grp(2, Rep(Digit, 4, 4))>>))

\* deal_finder.py
AmdAiRe == IgnoreCase(Cat(<<Lit("Ryzen"), Ws, Opt(Cat(<<Lit("AI"), Ws>>)), Grp(1, Digit),
                            Ws, Grp(2, Rep(Digit, 3, 4))>>))

SnapdragonRe == IgnoreCase(Cat(<<Lit("Snapdragon"), Ws, Lit("X"), Ws,
                                 Opt(Grp(1, Alt(<<Lit("Plus"), Lit("Elite")>>)))>>))

GpuRe == IgnoreCase(Grp(1, Alt(<<Cat(<<Lit("RTX"), Ws, Rep(Digit, 4, 4),
                                          Opt(Cat(<<Ws, Lit("Ti")>>))>>),
                                    Cat(<<Lit("GTX"), Ws, Rep(Digit, 4, 4)>>)>>)))

\* separators that include the parentheses
SepOrParenthesis == Set({",", "/", " ", "(", ")"})

Sep == Set({",", "/", " "})                \* [,/\s]
Ddr == Cat(<<Lit("DDR"), Opt(Digit)>>)     \* DDR\d?
Mag == Cat(<<Plus(Digit), Opt(Cat(<<Lit("."), Plus(Digit)>>))>>)  \* \d+(?:\.\d+)?
Unit == Alt(<<Lit("TB"), Lit("GB")>>)      \* TB|GB

ram_patterns == <<
    Cat(<<Grp(1, Plus(Digit)), Ws, Lit("GB"), Ws, Opt(Ddr), Ws, Lit("RAM")>>),
    Cat(<<Grp(1, Plus(Digit)), Ws, Lit("GB"), Ws, Lit("DDR"), Digit>>),
    Cat(<<Sep, Grp(1, Plus(Digit)), Ws, Lit("GB"), Sep>>),
    Cat(<<Grp(1, Plus(Digit)), Lit("GB"),
          Alt(<<Set(SpaceChars), Lit(","), Lit("/"), Lit("-"), EndS>>)>>),
    Cat(<<NotSet(DigitChars), Grp(1, Plus(Digit)), Ws, Lit("GB"), Ws1,
          Alt(<<Lit("Memory"), Lit("Mem")>>)>>),
    Cat(<<Lit("-"), Ws, Grp(1, Plus(Digit)), Lit("GB")>>) >>

ValidRam == {8, 12, 16, 24, 32, 48, 64, 96, 128}

\* the loop over ram_patterns: the first pattern that matches with a valid
\* size sets specs['ram'] and ends the loop
RECURSIVE RamFrom(_, _)
RECURSIVE RamMatch(_, _, _)

RamFrom(name, j) ==
    IF j > Len(ram_patterns) THEN 0
    ELSE RamMatch(Search(IgnoreCase(ram_patterns[j]), name), name, j)

\* the first match stored unchecked
RamMatchUnchecked(ram_match, name, j) ==
    IF ram_match.found
    THEN ToInt(Group(ram_match, name, 1))
    ELSE RamFrom(name, j + 1)

\* ram_match is the result of pattern j
RamMatch(ram_match, name, j) ==
    IF ram_match.found /\ ToInt(Group(ram_match, name, 1)) \in ValidRam
    THEN ToInt(Group(ram_match, name, 1))
    ELSE RamFrom(name, j + 1)

storage_patterns == <<
    Cat(<<Grp(1, Mag), Ws, Grp(2, Unit), Ws, Lit("SSD")>>),
    Cat(<<Grp(1, Mag), Ws, Grp(2, Unit), Ws, Alt(<<Lit("NVMe"), Lit("PCIe")>>)>>),
    Cat(<<Lit("SSD"), Star(Set({":", " "})), Grp(1, Mag), Ws, Grp(2, Unit)>>),
    Cat(<<Grp(1, Mag), Ws, Grp(2, Unit), Ws,
          Alt(<<Lit("Storage"), Lit("Hard"), Lit("Drive")>>)>>),
    Cat(<<Sep, Grp(1, Plus(Digit)), Ws, Grp(2, Lit("TB")), Sep>>),
    Cat(<<Sep, Grp(1, Alt(<<Lit("512"), Lit("256"), Lit("1024"), Lit("2048")>>)), Ws,
          Lit("GB"), Sep>>) >>

\* len(storage_match.groups()) of each storage pattern
storage_groups == <<2, 2, 2, 2, 2, 1>>

\* the loop over storage_patterns: the first pattern that matches ends it
RECURSIVE StorageFrom(_, _)
RECURSIVE StorageMatch(_, _, _)

StorageFrom(name, j) ==
    IF j > Len(storage_patterns) THEN 0
    ELSE StorageMatch(Search(IgnoreCase(storage_patterns[j]), name), name, j)

\* storage_match is the result of pattern j
StorageMatch(storage_match, name, j) ==
    IF storage_match.found
    THEN parse_size(Group(storage_match, name, 1)
                    \o (IF storage_groups[j] >= 2 THEN Group(storage_match, name, 2)
                        ELSE "GB"))
    ELSE StorageFrom(name, j + 1)

ScreenMag == Cat(<<Rep(Digit, 1, 2), Opt(Cat(<<Lit("."), Digit>>))>>)  \* \d{1,2}(?:\.\d)?

\* the class of the first pattern also holds U+201D and U+2033, which no
\* title of the model contains
screen_patterns == <<
    Cat(<<Grp(1, ScreenMag), Set({"\""}), Ws,
          Opt(Alt(<<Lit("FHD"), Lit("QHD"), Lit("UHD"), Lit("HD"), Lit("OLED"),
                    Lit("IPS"), Lit("LED")>>))>>),
    Cat(<<Grp(1, ScreenMag), Ws, Alt(<<Lit("inch"), Lit("in")>>), WordB>>),
    Cat(<<Grp(1, ScreenMag), Ws,
          Alt(<<Lit("FHD"), Lit("QHD"), Lit("UHD"), Lit("HD"), Lit("OLED")>>)>>) >>

\* float(group 1) in tenths of an inch
Tenths(s) == (FloatNum(s) * 10) \div FloatDen(s)

\* the loop over screen_patterns: the first pattern whose match lies in
\* 10..20 inches sets specs['screen_size'] and ends the loop
RECURSIVE ScreenFrom(_, _)
RECURSIVE ScreenMatch(_, _, _)

ScreenFrom(name, j) ==
    IF j > Len(screen_patterns) THEN 0
    ELSE ScreenMatch(Search(IgnoreCase(screen_patterns[j]), name), name, j)

\* screen_match is the result of pattern j
ScreenMatch(screen_match, name, j) ==
    IF /\ screen_match.found
       /\ 100 <= Tenths(Group(screen_match, name, 1))
       /\ Tenths(Group(screen_match, name, 1)) <= 200
    THEN Tenths(Group(screen_match, name, 1))
    ELSE ScreenFrom(name, j + 1)

\* the entries with HD before HD+
resolution_map_hd_first == <<
    [re |-> Word("4K"),                         res |-> "4K UHD"],
    [re |-> Word("UHD"),                        res |-> "4K UHD"],
    [re |-> Cat(<<WordB, Lit("QHD"), Lit("+")>>), res |-> "QHD+"],
    [re |-> Word("QHD"),                        res |-> "QHD"],
    [re |-> Word("WQXGA"),                      res |-> "WQXGA"],
    [re |-> Cat(<<WordB, Lit("FHD"), Lit("+")>>), res |-> "FHD+"],
    [re |-> Word("FHD"),                        res |-> "FHD"],
    [re |-> Word("1080p"),                      res |-> "FHD"],
    [re |-> Word("1440p"),                      res |-> "QHD"],
    [re |-> Word("2160p"),                      res |-> "4K UHD"],
    [re |-> Word("HD"),                         res |-> "HD"],
    [re |-> Cat(<<WordB, Lit("HD"), Lit("+")>>),  res |-> "HD+"],
    [re |-> Word("OLED"),                       res |-> "OLED"] >>

\* resolution_map, in the order of the dict
resolution_map == <<
    [re |-> Word("4K"),                         res |-> "4K UHD"],
    [re |-> Word("UHD"),                        res |-> "4K UHD"],
    [re |-> Cat(<<WordB, Lit("QHD"), Lit("+")>>), res |-> "QHD+"],
    [re |-> Word("QHD"),                        res |-> "QHD"],
    [re |-> Word("WQXGA"),                      res |-> "WQXGA"],
    [re |-> Cat(<<WordB, Lit("FHD"), Lit("+")>>), res |-> "FHD+"],
    [re |-> Word("FHD"),                        res |-> "FHD"],
    [re |-> Word("1080p"),                      res |-> "FHD"],
    [re |-> Word("1440p"),                      res |-> "QHD"],
    [re |-> Word("2160p"),                      res |-> "4K UHD"],
    [re |-> Cat(<<WordB, Lit("HD"), Lit("+")>>),  res |-> "HD+"],
    [re |-> Word("HD"),                         res |-> "HD"],
    [re |-> Word("OLED"),                       res |-> "OLED"] >>

\* the loop over resolution_map; cur is specs['resolution'] so far.  A
\* match of the OLED entry is recorded and the loop goes on; any other
\* match is recorded and ends the loop
RECURSIVE ResolutionFrom(_, _, _)
ResolutionFrom(name, j, cur) ==
    IF j > Len(resolution_map) THEN cur
    ELSE IF Search(IgnoreCase(resolution_map[j].re), name).found
         THEN IF resolution_map[j].res = "OLED"
              THEN ResolutionFrom(name, j + 1, "OLED")
              ELSE resolution_map[j].res
         ELSE ResolutionFrom(name, j + 1, cur)

\* the processor block: each pattern that matches overwrites what the one
\* before it set (cpu)
CpuUnknown == [cpu_gen |-> 0, cpu_model |-> "Unknown"]

CpuIntel(intel_match, name, cpu) ==
    IF intel_match.found
    THEN [cpu_gen   |-> IF Len(Group(intel_match, name, 2)) = 5
                        THEN ToInt(SubSeq(Group(intel_match, name, 2), 1, 2))
                        ELSE ToInt(SubSeq(Group(intel_match, name, 2), 1, 1)),
          cpu_model |-> Group(intel_match, name, 1) \o "-" \o Group(intel_match, name, 2)]
    ELSE cpu

\* the generation taken from the digit behind Ultra
CpuUltraByDigit(ultra_match, name, cpu) ==
    IF ultra_match.found
    THEN [cpu_gen   |-> ToInt(Group(ultra_match, name, 1)) + 7,
          cpu_model |-> "Ultra " \o Group(ultra_match, name, 1)]
    ELSE cpu

CpuUltra(ultra_match, name, cpu) ==
    IF ultra_match.found
    THEN [cpu_gen |-> 14, cpu_model |-> "Ultra " \o Group(ultra_match, name, 1)]
    ELSE cpu

CpuAmd(amd_match, name, cpu) ==
    IF amd_match.found
    THEN [cpu_gen   |-> ToInt(SubSeq(Group(amd_match, name, 2), 1, 1)) + 6,
          cpu_model |-> "Ryzen " \o Group(amd_match, name, 1) \o " "
                        \o Group(amd_match, name, 2)]
    ELSE cpu

\* the processor block with the Ultra pattern applied last
ExtractCpuUltraLast(name) ==
    CpuUltra(Search(UltraRe, name), name,
             CpuAmd(Search(AmdRe, name), name,
                    CpuIntel(Search(IntelRe, name), name, CpuUnknown)))

\* app.py and bestbuy_deal_finder.py
ExtractCpu(name) ==
    CpuAmd(Search(AmdRe, name), name,
           CpuUltra(Search(UltraRe, name), name,
                    CpuIntel(Search(IntelRe, name), name, CpuUnknown)))

GpuOf(gpu_match, name) ==
    IF gpu_match.found THEN StrUpper(Group(gpu_match, name, 1)) ELSE "Integrated"

ExtractGpu(name) == GpuOf(Search(GpuRe, name), name)

\* extract_specs of app.py
extract_specs(name) ==
    ExtractCpu(name) @@
    [ram         |-> RamFrom(name, 1),
     storage     |-> StorageFrom(name, 1),
     gpu         |-> ExtractGpu(name),
     screen_size |-> ScreenFrom(name, 1),
     resolution  |-> ResolutionFrom(name, 1, "Unknown")]

(* bestbuy_deal_finder.py *)

ram_patterns_bestbuy == <<
    Cat(<<Grp(1, Plus(Digit)), Ws, Lit("GB"), Ws, Opt(Ddr), Ws, Lit("RAM")>>),
    Cat(<<Grp(1, Plus(Digit)), Ws, Lit("GB"), Ws, Lit("DDR"), Digit>>),
    Cat(<<Lit("/"), Ws, Grp(1, Plus(Digit)), Ws, Lit("GB"), Ws, Lit("/")>>) >>

storage_patterns_bestbuy == <<
    Cat(<<Grp(1, Mag), Ws, Grp(2, Unit), Ws, Lit("SSD")>>),
    Cat(<<Grp(1, Mag), Ws, Grp(2, Unit), Ws, Alt(<<Lit("NVMe"), Lit("PCIe")>>)>>),
    Cat(<<Lit("/"), Ws, Grp(1, Mag), Ws, Grp(2, Unit), Ws, Lit("/")>>) >>

(* deal_finder.py *)

LpDdr == Cat(<<Opt(Lit("LP")), Lit("DDR"), Opt(Digit)>>)   \* (?:LP)?DDR\d?

ram_patterns_deal_finder == <<
    Cat(<<Grp(1, Plus(Digit)), Ws, Lit("GB"), Ws, LpDdr, Ws, Lit("RAM")>>),
    Cat(<<Grp(1, Plus(Digit)), Ws, Lit("GB"), Ws, Opt(Lit("LP")), Lit("DDR"), Digit>>),
    Cat(<<Grp(1, Plus(Digit)), Ws, Lit("GB"), Ws1, Lit("RAM")>>),
    Cat(<<Lit(","), Ws, Grp(1, Plus(Digit)), Ws, Lit("GB"), Ws1, Lit("RAM")>>) >>

storage_patterns_deal_finder == <<
    Cat(<<Grp(1, Mag), Ws, Grp(2, Unit), Ws, Lit("SSD")>>),
    Cat(<<Grp(1, Mag), Ws, Grp(2, Unit), Ws, Alt(<<Lit("NVMe"), Lit("PCIe")>>)>>) >>

\* the memory loop of the two command-line variants: the first pattern
\* that matches sets specs['ram'] and ends the loop
RECURSIVE FirstRam(_, _, _)
RECURSIVE FirstRamMatch(_, _, _, _)

FirstRam(pats, name, j) ==
    IF j > Len(pats) THEN 0
    ELSE FirstRamMatch(Search(IgnoreCase(pats[j]), name), pats, name, j)

\* a match with a magnitude that is no known size passed over
FirstRamMatchValid(ram_match, pats, name, j) ==
    IF ram_match.found /\ ToInt(Group(ram_match, name, 1)) \in ValidRam
    THEN ToInt(Group(ram_match, name, 1))
    ELSE FirstRam(pats, name, j + 1)

FirstRamMatch(ram_match, pats, name, j) ==
    IF ram_match.found THEN ToInt(Group(ram_match, name, 1))
    ELSE FirstRam(pats, name, j + 1)

\* the storage loop of the two command-line variants
RECURSIVE FirstStorage(_, _, _)
RECURSIVE FirstStorageMatch(_, _, _, _)

FirstStorage(pats, name, j) ==
    IF j > Len(pats) THEN 0
    ELSE FirstStorageMatch(Search(IgnoreCase(pats[j]), name), pats, name, j)

FirstStorageMatch(storage_match, pats, name, j) ==
    IF storage_match.found
    THEN parse_size(Group(storage_match, name, 1) \o Group(storage_match, name, 2))
    ELSE FirstStorage(pats, name, j + 1)

\* extract_specs of bestbuy_deal_finder.py
extract_specs_bestbuy(name) ==
    ExtractCpu(name) @@
    [ram     |-> FirstRam(ram_patterns_bestbuy, name, 1),
     storage |-> FirstStorage(storage_patterns_bestbuy, name, 1),
     gpu     |-> ExtractGpu(name)]

CpuSnapdragon(snapdragon_match, name, cpu) ==
    IF snapdragon_match.found
    THEN [cpu_gen   |-> 14,
          cpu_model |-> IF NoGroup(snapdragon_match, 1) THEN "Snapdragon X"
                        ELSE "Snapdragon X " \o Group(snapdragon_match, name, 1)]
    ELSE cpu

\* the processor block of deal_finder.py
ExtractCpuDealFinder(name) ==
    CpuSnapdragon(Search(SnapdragonRe, name), name,
        CpuAmd(Search(AmdAiRe, name), name,
               CpuUltra(Search(UltraRe, name), name,
                        CpuIntel(Search(IntelRe, name), name, CpuUnknown))))

\* extract_specs of deal_finder.py
extract_specs_deal_finder(name) ==
    ExtractCpuDealFinder(name) @@
    [ram     |-> FirstRam(ram_patterns_deal_finder, name, 1),
     storage |-> FirstStorage(storage_patterns_deal_finder, name, 1),
     gpu     |-> ExtractGpu(name)]

-----------------------------------------------------------------------------
(* extract_condition (app.py) *)

\* the branches with open box tested first
ConditionOfOpenBoxFirst(name_lower) ==
    IF Contains(name_lower, "open box") THEN "Open Box"
    ELSE IF Contains(name_lower, "refurbished")
    THEN IF Contains(name_lower, "(excellent)") \/ Contains(name_lower, "excellent")
         THEN "Refurbished (Excellent)"
         ELSE IF Contains(name_lower, "(good)") \/ Contains(name_lower, "good")
         THEN "Refurbished (Good)"
         ELSE IF Contains(name_lower, "(fair)")
         THEN "Refurbished (Fair)"
         ELSE "Refurbished"
    ELSE "New"

ConditionOf(name_lower) ==
    IF Contains(name_lower, "refurbished")
    THEN IF Contains(name_lower, "(excellent)") \/ Contains(name_lower, "excellent")
         THEN "Refurbished (Excellent)"
         ELSE IF Contains(name_lower, "(good)") \/ Contains(name_lower, "good")
         THEN "Refurbished (Good)"
         ELSE IF Contains(name_lower, "(fair)")
         THEN "Refurbished (Fair)"
         ELSE "Refurbished"
    ELSE IF Contains(name_lower, "open box") THEN "Open Box"
    ELSE "New"

extract_condition(name) == ConditionOf(StrLower(name))

-----------------------------------------------------------------------------
(* Python values *)

\* d.get(k, default)
Get(d, k, default) == IF k \in DOMAIN d THEN d[k] ELSE default

EmptyDict == <<>>

\* the JSON values a price field holds: a number, an object, or None for
\* the result of d.get(k) on a missing key
JNum(n)  == [ty |-> "num", v |-> n]
JDict(d) == [ty |-> "dict", v |-> d]
JNone    == [ty |-> "none"]

\* bool(x): None, 0 and the empty dict are false
Truthy(x) ==
    CASE x.ty = "none" -> FALSE
      [] x.ty = "num"  -> x.v # 0
      [] x.ty = "dict" -> DOMAIN x.v # {}

\* a or b
Or(a, b) == IF Truthy(a) THEN a ELSE b

\* str(n) for n >= 0
RECURSIVE IntToStr(_)
IntToStr(n) ==
    IF n < 10 THEN Chr("0123456789", n + 1)
    ELSE IntToStr(n \div 10) \o Chr("0123456789", (n % 10) + 1)

\* str(x) of a float with one decimal, held in tenths
TenthsToStr(t) == IntToStr(t \div 10) \o "." \o IntToStr(t % 10)

-----------------------------------------------------------------------------
(* The inputs of the model *)

\* the parts of a title, joined by blanks
Join(a, b) == IF a = "" THEN b ELSE IF b = "" THEN a ELSE a \o " " \o b

CpuParts     == {"", "i5-8250U", "i7-13620H"}
RamParts     == {"", "8GB RAM", "32GB DDR5 RAM"}
StorageParts == {"", "256GB SSD", "1TB SSD"}
DisplayParts == {"", "14\" HD", "17.3\" QHD"}

WideTitles ==
    {Join(Join(c, r), Join(st, d)) :
        c \in CpuParts, r \in RamParts, st \in StorageParts, d \in DisplayParts}

\* a fully specified title and the five that are lower in one part of it
PairTitles ==
    {"i7-13620H 32GB DDR5 RAM 1TB SSD 17.3\" QHD",
     "i5-8250U 32GB DDR5 RAM 1TB SSD 17.3\" QHD",
     "i7-13620H 8GB RAM 1TB SSD 17.3\" QHD",
     "i7-13620H 32GB DDR5 RAM 256GB SSD 17.3\" QHD",
     "i7-13620H 32GB DDR5 RAM 1TB SSD 14\" QHD",
     "i7-13620H 32GB DDR5 RAM 1TB SSD 17.3\" HD"}

\* the resolution keywords no other title holds
ResolutionParts == {"HD+", "FHD", "FHD+", "OLED", "WQXGA", "QHD+", "4K"}

ResolutionTitles == {Join("i7-13620H 32GB DDR5 RAM 1TB SSD", r) : r \in ResolutionParts}

Titles == WideTitles \cup PairTitles \cup ResolutionTitles

\* extract_specs and extract_condition are pure: each is tabulated once for
\* the titles of the model (@@ makes TLC build the table when it starts)
SpecsTable           == [t \in Titles |-> extract_specs(t)] @@ EmptyDict
SpecsTableBestBuy    == [t \in Titles |-> extract_specs_bestbuy(t)] @@ EmptyDict
SpecsTableDealFinder == [t \in Titles |-> extract_specs_deal_finder(t)] @@ EmptyDict
ConditionTable       == [t \in Titles |-> extract_condition(t)] @@ EmptyDict

\* a dict with the key k, or without it when v is JNone
Field(k, v) == IF v = JNone THEN EmptyDict ELSE (k :> v)

WideProducts ==
    {[name |-> t, priceWithoutEhf |-> JNum(900), saving |-> sv, sku |-> "123"] :
        t \in WideTitles, sv \in {0, 50}}

PairProducts ==
    {[name |-> t, priceWithoutEhf |-> JNum(900), saving |-> sv, sku |-> "123"] :
        t \in PairTitles, sv \in {0, 50}}

\* what a price field of a record holds: nothing, 0, a number, an empty
\* object, or an object with a customerPrice
PriceValues(n, m) ==
    {JNone, JNum(0), JNum(n), JDict(EmptyDict), JDict([customerPrice |-> JNum(m)])}

PriceProducts ==
    {[name |-> "i7-13620H 32GB DDR5 RAM 1TB SSD", saving |-> 50, sku |-> "201"]
     @@ Field("priceWithoutEhf", a) @@ Field("customerPrice", b) @@ Field("price", c) :
        a \in PriceValues(700, 710), b \in PriceValues(800, 810),
        c \in PriceValues(900, 910)}

\* records that lack fields, and a record of the Amazon source of
\* deal_finder.py
SparseProducts ==
    {EmptyDict,
     [name |-> "i7-13620H 32GB DDR5 RAM 1TB SSD"],
     [name |-> "i7-13620H 32GB DDR5 RAM 1TB SSD", price |-> JNum(650), saving |-> 0,
      asin |-> "B0X", source |-> "amazon"]}

\* what a record holds of its url and of its identifier
SeoUrlFields ==
    {EmptyDict, [seoUrl |-> ""], [seoUrl |-> "/en-ca/product/laptop/301"],
     [seoUrl |-> "https://shop.example.com/laptop"]}

SkuFields ==
    {EmptyDict, [sku |-> "301"], [skuId |-> "302"], [sku |-> "", skuId |-> "302"],
     [sku |-> "301", skuId |-> "302"]}

UrlProducts ==
    {[name |-> "i7-13620H 32GB DDR5 RAM 1TB SSD", priceWithoutEhf |-> JNum(900),
      saving |-> 50] @@ u @@ k : u \in SeoUrlFields, k \in SkuFields}

\* records of the Amazon source of deal_finder.py
AmazonProducts ==
    {[name |-> "i7-13620H 32GB DDR5 RAM 1TB SSD", price |-> JNum(650), saving |-> 0,
      source |-> "amazon"] @@ u @@ k :
        u \in {EmptyDict, [url |-> "https://www.amazon.ca/dp/B0X?th=1"], [url |-> "/dp/B0X"]},
        k \in {EmptyDict, [asin |-> "B0X"]}}

\* records that hold any subset of the optional fields
OptionalProducts ==
    {n @@ pr @@ sv @@ k @@ u @@ src :
        n   \in {EmptyDict, [name |-> "i7-13620H 32GB DDR5 RAM 1TB SSD"]},
        pr  \in {EmptyDict, [priceWithoutEhf |-> JNum(900)]},
        sv  \in {EmptyDict, [saving |-> 50]},
        k   \in {EmptyDict, [sku |-> "301"]},
        u   \in {EmptyDict, [seoUrl |-> "/en-ca/product/laptop/301"]},
        src \in {EmptyDict, [source |-> "Best Buy"]}}

ResolutionProducts ==
    {[name |-> t, priceWithoutEhf |-> JNum(900), saving |-> 50, sku |-> "401"] :
        t \in ResolutionTitles}

SingleProducts ==
    WideProducts \cup PriceProducts \cup SparseProducts \cup UrlProducts
    \cup AmazonProducts \cup OptionalProducts \cup ResolutionProducts

MaxProducts == 3

SeqProducts ==
    {[name |-> "i7-13620H 32GB DDR5 RAM 1TB SSD", priceWithoutEhf |-> JNum(900),
      saving |-> 50, sku |-> "101"],
     [name |-> "i7-13620H 8GB RAM 256GB SSD", priceWithoutEhf |-> JNum(700),
      saving |-> 0, sku |-> "102"],
     [name |-> "i5-8250U 32GB DDR5 RAM 256GB SSD", priceWithoutEhf |-> JNum(700),
      saving |-> 0, sku |-> "103"],
     [name |-> "i5-8250U 8GB RAM 256GB SSD", priceWithoutEhf |-> JNum(500),
      saving |-> 0, sku |-> "104"],
     [name |-> "i7-13620H 1TB SSD", priceWithoutEhf |-> JNum(600),
      saving |-> 0, sku |-> "105"]}

RECURSIVE SeqsUpTo(_, _)
SeqsUpTo(S, n) ==
    IF n = 0 THEN {<<>>}
    ELSE SeqsUpTo(S, n - 1) \cup {Append(q, x) : q \in SeqsUpTo(S, n - 1), x \in S}

\* the input collections: every sequence of up to MaxProducts of the
\* SeqProducts, every pair of PairProducts, and one-record collections
Inputs ==
    SeqsUpTo(SeqProducts, MaxProducts)
    \cup {<<p, q>> : p \in PairProducts, q \in PairProducts}
    \cup {<<p>> : p \in SingleProducts}
    \cup {<<p, q>> : p \in SparseProducts, q \in SparseProducts}

Baselines ==
    {[cpu_gen |-> 10, ram |-> 16, storage |-> 512, screen_size |-> 156, resolution |-> "FHD"],
     [cpu_gen |-> 13, ram |-> 32, storage |-> 1024, screen_size |-> 173, resolution |-> "QHD"],
     [cpu_gen |-> 8, ram |-> 8, storage |-> 256, screen_size |-> 140, resolution |-> "HD"],
     [cpu_gen |-> 10, ram |-> 16, storage |-> 512],
     [cpu_gen |-> 10, ram |-> 16, storage |-> 0, resolution |-> "Retina"],
     [cpu_gen |-> 10, ram |-> 16, resolution |-> "4K UHD"],
     EmptyDict}

MinSpecs ==
    {EmptyDict,
     [cpu_gen |-> 11, ram |-> 16, storage |-> 512, screen_size |-> 150, resolution |-> "FHD"],
     [ram |-> 32, storage |-> 1024],
     [cpu_gen |-> 8, ram |-> 8, storage |-> 256, screen_size |-> 140, resolution |-> "HD"]}

-----------------------------------------------------------------------------
(* Scoring: app.py *)

\* price = p.get('priceWithoutEhf') or p.get('customerPrice') or p.get('price', 0)
\* if isinstance(price, dict): price = price.get('customerPrice', 0)
\* (the same lines in analyze_deals and analyze_deals_with_filters)
ResolvePrice(p) ==
    LET price == Or(Get(p, "priceWithoutEhf", JNone),
                    Or(Get(p, "customerPrice", JNone), Get(p, "price", JNum(0))))
    IN  IF price.ty = "dict" THEN Get(price.v, "customerPrice", JNum(0)) ELSE price

\* sku = p.get('sku') or p.get('skuId', '')
ResolveSku(p) == IF Get(p, "sku", "") # "" THEN p["sku"] ELSE Get(p, "skuId", "")

BaseUrl(ctry) == IF ctry = "US" THEN "https://www.bestbuy.com" ELSE "https://www.bestbuy.ca"

\* a url built from the identifier alone, whatever url the record supplies
ResolveUrlFromSku(p, ctry) ==
    IF ctry = "US"
    THEN BaseUrl(ctry) \o "/site/" \o ResolveSku(p) \o ".p?skuId=" \o ResolveSku(p)
    ELSE BaseUrl(ctry) \o "/en-ca/product/" \o ResolveSku(p)

\* the url of a deal (the same lines in both analyzers of app.py)
ResolveUrl(p, ctry) ==
    LET seo_url == Get(p, "seoUrl", "")
        sku     == ResolveSku(p)
    IN  IF seo_url # "" /\ StartsWith(seo_url, "http") THEN seo_url
        ELSE IF ctry = "US"
        THEN (IF sku # "" THEN BaseUrl(ctry) \o "/site/" \o sku \o ".p?skuId=" \o sku
              ELSE seo_url)
        ELSE IF seo_url # "" THEN BaseUrl(ctry) \o seo_url
        ELSE (IF sku # "" THEN BaseUrl(ctry) \o "/en-ca/product/" \o sku ELSE "#")

\* the ranks with OLED at the rank of FHD
resolution_rank_oled_3 ==
    ("HD" :> 1) @@ ("HD+" :> 2) @@ ("FHD" :> 3) @@ ("FHD+" :> 4) @@ ("QHD" :> 5)
    @@ ("WQXGA" :> 5) @@ ("QHD+" :> 6) @@ ("4K UHD" :> 7) @@ ("OLED" :> 3)
    @@ ("Unknown" :> 0)

resolution_rank ==
    ("HD" :> 1) @@ ("HD+" :> 2) @@ ("FHD" :> 3) @@ ("FHD+" :> 4) @@ ("QHD" :> 5)
    @@ ("WQXGA" :> 5) @@ ("QHD+" :> 6) @@ ("4K UHD" :> 7) @@ ("OLED" :> 4)
    @@ ("Unknown" :> 0)

\* resolution_rank.get(current_specs.get('resolution', 'FHD'), 3)
CurrentResRank(cs) == Get(resolution_rank, Get(cs, "resolution", "FHD"), 3)

\* resolution_rank.get(specs['resolution'], 0)
ProductResRank(specs) == Get(resolution_rank, specs.resolution, 0)

\* the comparisons with storage compared strictly
BetterAppStrictStorage(specs, cs) ==
    [cpu     |-> specs.cpu_gen > cs["cpu_gen"],
     ram     |-> specs.ram > cs["ram"],
     storage |-> specs.storage > cs["storage"],
     screen  |-> IF specs.screen_size > 0
                 THEN specs.screen_size > Get(cs, "screen_size", 0) ELSE FALSE,
     res     |-> IF ProductResRank(specs) > 0
                 THEN ProductResRank(specs) > CurrentResRank(cs) ELSE FALSE]

\* the comparisons of analyze_deals
BetterApp(specs, cs) ==
    [cpu     |-> specs.cpu_gen > cs["cpu_gen"],
     ram     |-> specs.ram > cs["ram"],
     storage |-> specs.storage >= cs["storage"],
     screen  |-> IF specs.screen_size > 0
                 THEN specs.screen_size > Get(cs, "screen_size", 0) ELSE FALSE,
     res     |-> IF ProductResRank(specs) > 0
                 THEN ProductResRank(specs) > CurrentResRank(cs) ELSE FALSE]

\* the notes of analyze_deals
NotesApp(specs, cs, b) ==
    (IF b.cpu THEN <<"CPU+ (Gen " \o IntToStr(specs.cpu_gen) \o ")">> ELSE <<>>)
    \o (IF b.ram THEN <<"RAM+ (" \o IntToStr(specs.ram) \o "GB)">> ELSE <<>>)
    \o (IF b.storage THEN <<"Storage+ (" \o IntToStr(specs.storage) \o "GB)">>
        ELSE IF specs.storage > 0 /\ specs.storage < cs["storage"]
        THEN <<"Storage- (" \o IntToStr(specs.storage) \o "GB)">>
        ELSE <<>>)
    \o (IF b.screen THEN <<"Screen+ (" \o TenthsToStr(specs.screen_size) \o "\")">> ELSE <<>>)
    \o (IF b.res THEN <<"Res+ (" \o specs.resolution \o ")">> ELSE <<>>)

\* a score that weighs storage like memory
ScoreAppStorageTwo(b, saving) ==
    (IF b.cpu THEN 2 ELSE 0) + (IF b.ram THEN 2 ELSE 0) + (IF b.storage THEN 2 ELSE 0)
    + (IF b.screen THEN 1 ELSE 0) + (IF b.res THEN 1 ELSE 0) + (IF saving > 0 THEN 1 ELSE 0)

\* a score that counts processor and memory once when both are better
ScoreAppEither(b, saving) ==
    (IF b.cpu \/ b.ram THEN 2 ELSE 0) + (IF b.storage THEN 1 ELSE 0)
    + (IF b.screen THEN 1 ELSE 0) + (IF b.res THEN 1 ELSE 0) + (IF saving > 0 THEN 1 ELSE 0)

\* a score that gives a better processor one point
ScoreAppCpuOne(b, saving) ==
    (IF b.cpu THEN 1 ELSE 0) + (IF b.ram THEN 2 ELSE 0) + (IF b.storage THEN 1 ELSE 0)
    + (IF b.screen THEN 1 ELSE 0) + (IF b.res THEN 1 ELSE 0) + (IF saving > 0 THEN 1 ELSE 0)

\* the score (the same lines in both analyzers of app.py)
ScoreApp(b, saving) ==
    (IF b.cpu THEN 2 ELSE 0) + (IF b.ram THEN 2 ELSE 0) + (IF b.storage THEN 1 ELSE 0)
    + (IF b.screen THEN 1 ELSE 0) + (IF b.res THEN 1 ELSE 0) + (IF saving > 0 THEN 1 ELSE 0)

\* the three-dimension gate of analyze_deals_with_filters in analyze_deals
IsUpgradeAppWithStorage(b) == b.cpu \/ b.ram \/ b.storage

\* deal['is_upgrade'] of analyze_deals
IsUpgradeApp(b) == b.cpu \/ b.ram

\* a deal whose savings are 1 when the record holds none
DealAppSavingDefaultOne(p, pos, cs, ctry, specs, condition) ==
    [name       |-> Get(p, "name", ""),
     price      |-> ResolvePrice(p),
     saving     |-> Get(p, "saving", 1),
     specs      |-> specs,
     condition  |-> condition,
     notes      |-> NotesApp(specs, cs, BetterApp(specs, cs)),
     score      |-> ScoreApp(BetterApp(specs, cs), Get(p, "saving", 1)),
     url        |-> ResolveUrl(p, ctry),
     sku        |-> ResolveSku(p),
     source     |-> Get(p, "source", ""),
     is_upgrade |-> IsUpgradeApp(BetterApp(specs, cs)),
     pos        |-> pos]

\* the deal dict analyze_deals builds for the record p at position pos of
\* the input.  pos is no key of the program's dict: it records where the
\* raw record stood in the input.
DealApp(p, pos, cs, ctry, specs, condition) ==
    LET name  == Get(p, "name", "")
        b     == BetterApp(specs, cs)
    IN  [name       |-> name,
         price      |-> ResolvePrice(p),
         saving     |-> Get(p, "saving", 0),
         specs      |-> specs,
         condition  |-> condition,
         notes      |-> NotesApp(specs, cs, b),
         score      |-> ScoreApp(b, Get(p, "saving", 0)),
         url        |-> ResolveUrl(p, ctry),
         sku        |-> ResolveSku(p),
         source     |-> Get(p, "source", ""),
         is_upgrade |-> IsUpgradeApp(b),
         pos        |-> pos]

\* the keys analyze_deals reads with current_specs[...]
RequiredKeys == {"cpu_gen", "ram", "storage"}

\* a key that orders equal scores by price descending
KeyLessPriceDescending(x, y) ==
    \/ x.score > y.score
    \/ x.score = y.score /\ x.price.v > y.price.v

\* x sorts before y under key=lambda x: (-x['score'], x['price'])
KeyLess(x, y) ==
    \/ x.score > y.score
    \/ x.score = y.score /\ x.price.v < y.price.v

\* an insertion that puts d before the elements that compare equal to it
RECURSIVE InsertBeforeEqual(_, _)
InsertBeforeEqual(d, sorted) ==
    IF sorted = <<>> THEN <<d>>
    ELSE IF ~KeyLess(Head(sorted), d) THEN <<d>> \o sorted
    ELSE <<Head(sorted)>> \o InsertBeforeEqual(d, Tail(sorted))

\* list.sort is stable: d goes behind every element it does not sort before
RECURSIVE Insert(_, _)
Insert(d, sorted) ==
    IF sorted = <<>> THEN <<d>>
    ELSE IF KeyLess(d, Head(sorted)) THEN <<d>> \o sorted
    ELSE <<Head(sorted)>> \o Insert(d, Tail(sorted))

RECURSIVE SortDeals(_)
SortDeals(ds) ==
    IF ds = <<>> THEN <<>>
    ELSE Insert(ds[Len(ds)], SortDeals(SubSeq(ds, 1, Len(ds) - 1)))

\* an iteration that also counts the records dropped as no upgrade
StepAppCountsAll(acc, specs, deal, cs, sa, fi) ==
    IF acc.raised THEN acc
    ELSE IF fi /\ specs.ram = 0
    THEN [acc EXCEPT !.skipped = @ + 1]
    ELSE IF ~({"cpu_gen", "ram", "storage"} \subseteq DOMAIN cs)
    THEN [acc EXCEPT !.raised = TRUE]
    ELSE IF sa \/ deal.is_upgrade
    THEN [acc EXCEPT !.deals = Append(@, deal)]
    ELSE [acc EXCEPT !.skipped = @ + 1]

\* an iteration that keeps a deal only while no other is kept
StepAppFirstOnly(acc, specs, deal, cs, sa, fi) ==
    IF acc.raised THEN acc
    ELSE IF fi /\ specs.ram = 0
    THEN [acc EXCEPT !.skipped = @ + 1]
    ELSE IF ~(RequiredKeys \subseteq DOMAIN cs)
    THEN [acc EXCEPT !.raised = TRUE]
    ELSE IF (sa \/ deal.is_upgrade) /\ acc.deals = <<>>
    THEN [acc EXCEPT !.deals = Append(@, deal)]
    ELSE acc

\* one iteration of the loop of analyze_deals, with specs = extract_specs(name)
\* and deal the dict built for the record; acc holds deals, the count
\* skipped_incomplete and whether a KeyError ended the loop
StepApp(acc, specs, deal, cs, sa, fi) ==
    IF acc.raised THEN acc
    ELSE IF fi /\ specs.ram = 0
    THEN [acc EXCEPT !.skipped = @ + 1]
    ELSE IF ~(RequiredKeys \subseteq DOMAIN cs)
    THEN [acc EXCEPT !.raised = TRUE]
    ELSE IF sa \/ deal.is_upgrade
    THEN [acc EXCEPT !.deals = Append(@, deal)]
    ELSE acc

LoopStart == [deals |-> <<>>, skipped |-> 0, raised |-> FALSE]

\* the loop of analyze_deals over the first i records
RECURSIVE LoopApp(_, _, _, _, _, _)
LoopApp(ps, i, cs, sa, ctry, fi) ==
    IF i = 0 THEN LoopStart
    ELSE StepApp(LoopApp(ps, i - 1, cs, sa, ctry, fi),
                 SpecsTable[Get(ps[i], "name", "")],
                 DealApp(ps[i], i, cs, ctry, SpecsTable[Get(ps[i], "name", "")],
                         ConditionTable[Get(ps[i], "name", "")]),
                 cs, sa, fi)

\* deals.sort(key=lambda x: (-x['score'], x['price'])) after the loop
SortAfter(end) == IF end.raised THEN end ELSE [end EXCEPT !.deals = SortDeals(@)]

\* analyze_deals(products, current_specs, show_all, country, filter_incomplete)
analyze_deals(ps, cs, sa, ctry, fi) == SortAfter(LoopApp(ps, Len(ps), cs, sa, ctry, fi))

-----------------------------------------------------------------------------
(* Scoring: analyze_deals_with_filters of app.py *)

\* the checks without the one on memory
BelowMinimumNoMemory(specs, ms) ==
    \/ specs.storage > 0 /\ specs.storage < Get(ms, "storage", 0)
    \/ specs.cpu_gen > 0 /\ specs.cpu_gen < Get(ms, "cpu_gen", 0)
    \/ specs.screen_size > 0 /\ specs.screen_size < Get(ms, "screen_size", 0)
    \/ /\ Get(resolution_rank, specs.resolution, 0) > 0
       /\ Get(resolution_rank, specs.resolution, 0)
              < Get(resolution_rank, Get(ms, "resolution", "FHD"), 3)

\* the checks against the minimum requirements, made unless show_all
BelowMinimum(specs, ms) ==
    \/ specs.ram < Get(ms, "ram", 0)
    \/ specs.storage > 0 /\ specs.storage < Get(ms, "storage", 0)
    \/ specs.cpu_gen > 0 /\ specs.cpu_gen < Get(ms, "cpu_gen", 0)
    \/ specs.screen_size > 0 /\ specs.screen_size < Get(ms, "screen_size", 0)
    \/ /\ ProductResRank(specs) > 0
       /\ ProductResRank(specs) < Get(resolution_rank, Get(ms, "resolution", "FHD"), 3)

\* the comparisons of analyze_deals_with_filters
BetterFilters(specs, cs) ==
    [cpu     |-> IF specs.cpu_gen > 0 THEN specs.cpu_gen > Get(cs, "cpu_gen", 0) ELSE FALSE,
     ram     |-> specs.ram > Get(cs, "ram", 0),
     storage |-> IF specs.storage > 0 THEN specs.storage >= Get(cs, "storage", 0) ELSE FALSE,
     screen  |-> IF specs.screen_size > 0
                 THEN specs.screen_size > Get(cs, "screen_size", 0) ELSE FALSE,
     res     |-> IF ProductResRank(specs) > 0
                 THEN ProductResRank(specs) > CurrentResRank(cs) ELSE FALSE]

\* the notes of analyze_deals_with_filters
NotesFilters(specs, b) ==
    (IF b.cpu THEN <<"CPU+ (Gen " \o IntToStr(specs.cpu_gen) \o ")">> ELSE <<>>)
    \o (IF b.ram THEN <<"RAM+ (" \o IntToStr(specs.ram) \o "GB)">> ELSE <<>>)
    \o (IF b.storage THEN <<"Storage+ (" \o IntToStr(specs.storage) \o "GB)">> ELSE <<>>)
    \o (IF b.screen THEN <<"Screen+ (" \o TenthsToStr(specs.screen_size) \o "\")">> ELSE <<>>)
    \o (IF b.res THEN <<"Res+ (" \o specs.resolution \o ")">> ELSE <<>>)

\* deal['is_upgrade'] of analyze_deals_with_filters
IsUpgradeFilters(b) == b.cpu \/ b.ram \/ b.storage

DealFilters(p, pos, cs, ctry, specs, condition) ==
    LET name  == Get(p, "name", "")
        b     == BetterFilters(specs, cs)
    IN  [name       |-> name,
         price      |-> ResolvePrice(p),
         saving     |-> Get(p, "saving", 0),
         specs      |-> specs,
         condition  |-> condition,
         notes      |-> NotesFilters(specs, b),
         score      |-> ScoreApp(b, Get(p, "saving", 0)),
         url        |-> ResolveUrl(p, ctry),
         sku        |-> ResolveSku(p),
         source     |-> Get(p, "source", ""),
         is_upgrade |-> IsUpgradeFilters(b),
         pos        |-> pos]

\* an iteration in which show_all also switches off the check that memory
\* was detected
StepFiltersShowAllKeepsAll(acc, specs, deal, ms, sa) ==
    IF ~sa /\ (specs.ram = 0 \/ BelowMinimum(specs, ms))
    THEN [acc EXCEPT !.skipped = @ + 1]
    ELSE [acc EXCEPT !.deals = Append(@, deal)]

\* an iteration that, unless show_all, also skips what is no upgrade on the
\* baseline
StepFiltersUpgradesOnly(acc, specs, deal, ms, sa) ==
    IF specs.ram = 0
    THEN [acc EXCEPT !.skipped = @ + 1]
    ELSE IF ~sa /\ (BelowMinimum(specs, ms) \/ ~deal.is_upgrade)
    THEN [acc EXCEPT !.skipped = @ + 1]
    ELSE [acc EXCEPT !.deals = Append(@, deal)]

\* one iteration of the loop of analyze_deals_with_filters, with
\* specs = extract_specs(name) and deal the dict built for the record
StepFilters(acc, specs, deal, ms, sa) ==
    IF specs.ram = 0
    THEN [acc EXCEPT !.skipped = @ + 1]
    ELSE IF ~sa /\ BelowMinimum(specs, ms)
    THEN [acc EXCEPT !.skipped = @ + 1]
    ELSE [acc EXCEPT !.deals = Append(@, deal)]

\* the loop of analyze_deals_with_filters over the first i records
RECURSIVE LoopFilters(_, _, _, _, _, _)
LoopFilters(ps, i, cs, ms, sa, ctry) ==
    IF i = 0 THEN LoopStart
    ELSE StepFilters(LoopFilters(ps, i - 1, cs, ms, sa, ctry),
                     SpecsTable[Get(ps[i], "name", "")],
                     DealFilters(ps[i], i, cs, ctry, SpecsTable[Get(ps[i], "name", "")],
                                 ConditionTable[Get(ps[i], "name", "")]),
                     ms, sa)

\* analyze_deals_with_filters(products, current_specs, min_specs, show_all, country)
analyze_deals_with_filters(ps, cs, ms, sa, ctry) ==
    SortAfter(LoopFilters(ps, Len(ps), cs, ms, sa, ctry))

-----------------------------------------------------------------------------
(* Scoring: the two command-line variants *)

\* the comparisons of analyze_deals (bestbuy_deal_finder.py, deal_finder.py)
BetterCli(specs, cs) ==
    [cpu     |-> specs.cpu_gen > cs["cpu_gen"],
     ram     |-> specs.ram > cs["ram"],
     storage |-> specs.storage >= cs["storage"]]

NotesCli(specs, cs, b) ==
    (IF b.cpu THEN <<"CPU+ (Gen " \o IntToStr(specs.cpu_gen) \o ")">> ELSE <<>>)
    \o (IF b.ram THEN <<"RAM+ (" \o IntToStr(specs.ram) \o "GB)">> ELSE <<>>)
    \o (IF b.storage THEN <<"Storage+ (" \o IntToStr(specs.storage) \o "GB)">>
        ELSE IF specs.storage > 0 /\ specs.storage < cs["storage"]
        THEN <<"Storage- (" \o IntToStr(specs.storage) \o "GB)">>
        ELSE <<>>)

ScoreCli(b, saving) ==
    (IF b.cpu THEN 2 ELSE 0) + (IF b.ram THEN 2 ELSE 0) + (IF b.storage THEN 1 ELSE 0)
    + (IF saving > 0 THEN 1 ELSE 0)

IsUpgradeCli(b) == b.cpu \/ b.ram

\* (name[:55] + "...") if len(name) > 55 else name
NameShort(name) == IF Len(name) > 55 THEN SubSeq(name, 1, 55) \o "..." ELSE name

\* the url of a deal of bestbuy_deal_finder.py; the Best Buy branch of
\* deal_finder.py computes the same value
UrlBestBuy(p) ==
    LET seo_url == Get(p, "seoUrl", "")
    IN  IF seo_url # ""
        THEN (IF StartsWith(seo_url, "http") THEN seo_url
              ELSE "https://www.bestbuy.ca" \o seo_url)
        ELSE "https://www.bestbuy.ca/en-ca/product/" \o Get(p, "sku", "")

DealBestBuy(p, pos, cs, specs) ==
    LET name  == Get(p, "name", "")
        b     == BetterCli(specs, cs)
    IN  [name       |-> name,
         name_short |-> NameShort(name),
         price      |-> Get(p, "priceWithoutEhf", JNum(0)),
         saving     |-> Get(p, "saving", 0),
         specs      |-> specs,
         notes      |-> NotesCli(specs, cs, b),
         score      |-> ScoreCli(b, Get(p, "saving", 0)),
         url        |-> UrlBestBuy(p),
         sku        |-> Get(p, "sku", ""),
         is_upgrade |-> IsUpgradeCli(b),
         pos        |-> pos]

\* the deal of deal_finder.py: an Amazon record carries price, asin and url
DealDealFinder(p, pos, cs, specs) ==
    LET source == Get(p, "source", "bestbuy")
        name   == Get(p, "name", "")
        b      == BetterCli(specs, cs)
        sku    == IF source = "amazon" THEN Get(p, "asin", "") ELSE Get(p, "sku", "")
    IN  [name       |-> name,
         name_short |-> NameShort(name),
         price      |-> IF source = "amazon" THEN Get(p, "price", JNum(0))
                        ELSE Get(p, "priceWithoutEhf", JNum(0)),
         saving     |-> Get(p, "saving", 0),
         specs      |-> specs,
         notes      |-> NotesCli(specs, cs, b),
         score      |-> ScoreCli(b, Get(p, "saving", 0)),
         url        |-> IF source = "amazon"
                        THEN Get(p, "url", "https://www.amazon.ca/dp/" \o sku)
                        ELSE UrlBestBuy(p),
         sku        |-> sku,
         source     |-> source,
         is_upgrade |-> IsUpgradeCli(b),
         pos        |-> pos]

\* one iteration of the loop of a command-line analyze_deals, d the deal
\* built for the record
StepCli(acc, d, cs, sa) ==
    IF acc.raised THEN acc
    ELSE IF ~(RequiredKeys \subseteq DOMAIN cs)
    THEN [acc EXCEPT !.raised = TRUE]
    ELSE IF sa \/ d.is_upgrade
    THEN [acc EXCEPT !.deals = Append(@, d)]
    ELSE acc

\* the loop of analyze_deals of bestbuy_deal_finder.py over the first i records
RECURSIVE LoopBestBuy(_, _, _, _)
LoopBestBuy(ps, i, cs, sa) ==
    IF i = 0 THEN LoopStart
    ELSE StepCli(LoopBestBuy(ps, i - 1, cs, sa),
                 DealBestBuy(ps[i], i, cs, SpecsTableBestBuy[Get(ps[i], "name", "")]),
                 cs, sa)

\* analyze_deals(products, current_specs, show_all) of bestbuy_deal_finder.py
analyze_deals_bestbuy(ps, cs, sa) == SortAfter(LoopBestBuy(ps, Len(ps), cs, sa))

\* the loop of analyze_deals of deal_finder.py over the first i records
RECURSIVE LoopDealFinder(_, _, _, _)
LoopDealFinder(ps, i, cs, sa) ==
    IF i = 0 THEN LoopStart
    ELSE StepCli(LoopDealFinder(ps, i - 1, cs, sa),
                 DealDealFinder(ps[i], i, cs, SpecsTableDealFinder[Get(ps[i], "name", "")]),
                 cs, sa)

\* analyze_deals(products, current_specs, show_all) of deal_finder.py
analyze_deals_deal_finder(ps, cs, sa) == SortAfter(LoopDealFinder(ps, Len(ps), cs, sa))

-----------------------------------------------------------------------------
(* The state machine: one call of one analyzer *)

Analyzers == {"analyze_deals", "analyze_deals_with_filters",
              "analyze_deals_bestbuy", "analyze_deals_deal_finder"}

Init ==
    /\ fn \in Analyzers
    /\ products \in Inputs
    /\ current_specs \in Baselines
    /\ show_all \in BOOLEAN
    /\ min_specs \in (IF fn = "analyze_deals_with_filters" THEN MinSpecs ELSE {EmptyDict})
    /\ country \in (IF fn \in {"analyze_deals", "analyze_deals_with_filters"}
                    THEN {"CA", "US"} ELSE {"CA"})
    /\ filter_incomplete \in (IF fn = "analyze_deals" THEN BOOLEAN ELSE {TRUE})
    /\ outcome = "ready"
    /\ deals = <<>>
    /\ skipped = 0
    /\ arg = JNone
    /\ result = JNone

Inputs_unchanged ==
    UNCHANGED <<products, current_specs, min_specs, show_all, country, filter_incomplete, fn,
                arg, result>>

\* deals, skipped = analyze_deals(products, current_specs, show_all, country,
\*                                filter_incomplete)
AnalyzeDeals ==
    /\ outcome = "ready"
    /\ fn = "analyze_deals"
    /\ \E r \in {analyze_deals(products, current_specs, show_all, country,
                                filter_incomplete)} :
           IF r.raised
           THEN outcome' = "raised" /\ UNCHANGED <<deals, skipped>>
           ELSE outcome' = "returned" /\ deals' = r.deals /\ skipped' = r.skipped
    /\ Inputs_unchanged

\* deals, skipped = analyze_deals_with_filters(products, current_specs, min_specs,
\*                                             show_all, country)
AnalyzeDealsWithFilters ==
    /\ outcome = "ready"
    /\ fn = "analyze_deals_with_filters"
    /\ \E r \in {analyze_deals_with_filters(products, current_specs, min_specs,
                                             show_all, country)} :
           outcome' = "returned" /\ deals' = r.deals /\ skipped' = r.skipped
    /\ Inputs_unchanged

\* deals = analyze_deals(products, current_specs, show_all) of
\* bestbuy_deal_finder.py, which returns no count
AnalyzeDealsBestBuy ==
    /\ outcome = "ready"
    /\ fn = "analyze_deals_bestbuy"
    /\ \E r \in {analyze_deals_bestbuy(products, current_specs, show_all)} :
           IF r.raised
           THEN outcome' = "raised" /\ UNCHANGED deals
           ELSE outcome' = "returned" /\ deals' = r.deals
    /\ UNCHANGED skipped
    /\ Inputs_unchanged

\* deals = analyze_deals(products, current_specs, show_all) of deal_finder.py
AnalyzeDealsDealFinder ==
    /\ outcome = "ready"
    /\ fn = "analyze_deals_deal_finder"
    /\ \E r \in {analyze_deals_deal_finder(products, current_specs, show_all)} :
           IF r.raised
           THEN outcome' = "raised" /\ UNCHANGED deals
           ELSE outcome' = "returned" /\ deals' = r.deals
    /\ UNCHANGED skipped
    /\ Inputs_unchanged

Next ==
    \/ AnalyzeDeals
    \/ AnalyzeDealsWithFilters
    \/ AnalyzeDealsBestBuy
    \/ AnalyzeDealsDealFinder

Spec == Init /\ [][Next]_vars

-----------------------------------------------------------------------------
(* The state machine of the text functions: one call of parse_size, of     *)
(* extract_condition or of one extract_specs, on an argument of its own    *)

\* a str argument; None is JNone
PyStr(s) == [ty |-> "str", v |-> s]

\* a magnitude of milli thousandths: its whole gigabytes, and the whole
\* gigabytes of as many terabytes
Magnitude(text, milli) ==
    [text |-> text, gb |-> milli \div 1000, tb |-> (milli * 1024) \div 1000]

ShortMagnitudes ==
    {Magnitude("1", 1000),    Magnitude("2", 2000),  Magnitude("16", 16000),
     Magnitude("512", 512000), Magnitude("1.5", 1500), Magnitude("0.5", 500),
     Magnitude("2.75", 2750),  Magnitude("0.001", 1),  Magnitude("1.999", 1999)}

\* magnitudes of eighteen significant digits
LongMagnitudes ==
    {[text |-> "1.99999999999999999", gb |-> 1, tb |-> 2047],
     [text |-> "0.99999999999999999", gb |-> 0, tb |-> 1023]}

Magnitudes == ShortMagnitudes \cup LongMagnitudes

\* what follows the magnitude, with the unit parse_size reads in it
Units ==
    {[text |-> "GB", unit |-> "GB"],    [text |-> "TB", unit |-> "TB"],
     [text |-> "gb", unit |-> "GB"],    [text |-> " tb", unit |-> "TB"],
     [text |-> " G B", unit |-> "GB"],  [text |-> "GBTB", unit |-> "TB"],
     [text |-> "TB GB", unit |-> "TB"], [text |-> "GB (TB)", unit |-> "TB"],
     [text |-> "MB", unit |-> "none"],  [text |-> "", unit |-> "none"],
     [text |-> " G", unit |-> "none"]}

\* what stands in the place of a magnitude and is none
NoMagnitudes == {"", "abc", "x.y", ".", "-"}

\* tokens whose magnitude float() takes to inf
InfTokens ==
    {FloatInfFrom \o "GB", FloatTimes1024InfFrom \o "TB",
     "0000" \o FloatInfFrom \o ".5 gb"}

SizeArgs ==
    {JNone, PyStr("")}
    \cup {PyStr(m.text \o u.text) : m \in Magnitudes, u \in Units}
    \cup {PyStr(n \o u.text) : n \in NoMagnitudes, u \in Units}
    \cup {PyStr(t) : t \in InfTokens}

\* the parts of a title extract_condition reads
RefurbishedWords == {"Refurbished", "REFURBISHED"}
RefurbishedParts == {"", "Refurb"} \cup RefurbishedWords
OpenBoxWords     == {"Open Box", "OPEN BOX"}
OpenBoxParts     == {"", "Open-Box"} \cup OpenBoxWords
GradeParts       == {"", "(Excellent)", "Excellent", "(Good)", "GOOD", "(Fair)", "Fair"}
NewParts         == {"", "New"}

ConditionTitle(n, o, r, g) == Join(Join(n, "Dell XPS 15"), Join(Join(o, r), g))

ConditionTitles ==
    {ConditionTitle(n, o, r, g) :
        n \in NewParts, o \in OpenBoxParts, r \in RefurbishedParts, g \in GradeParts}

\* the processor markers of a title
ISeriesParts    == {"", "i7-13620H"}
UltraParts      == {"", "Core Ultra 7 155H", "Ultra 9", "ULTRA5"}
RyzenParts      == {"", "Ryzen 7 7840HS", "Ryzen AI 9 365"}
SnapdragonParts == {"", "Snapdragon X Elite"}
NumericParts    == {"", "16GB RAM 512GB SSD 15.6\" 2024"}

CpuTitle(i, u, r, q, o) == Join(Join("Laptop", Join(i, u)), Join(Join(r, q), o))

CpuTitles ==
    {CpuTitle(i, u, r, q, o) :
        i \in ISeriesParts, u \in UltraParts, r \in RyzenParts, q \in SnapdragonParts,
        o \in NumericParts}

\* memory tokens, of valid and of other sizes, and tokens that are none
RamTokens ==
    {"", "4GB RAM", "6GB DDR4", "16GB RAM", "20GB RAM", "32GB DDR5", "/16GB/",
     "12 GB Memory", "-24GB", "512GB SSD", "1000GB", "64GB", "256GB RAM"}

RamTitle(a, b) == Join("Laptop", Join(a, b))

RamTitles == {RamTitle(a, b) : a \in RamTokens, b \in RamTokens}

\* capacity tokens: marker says which storage word stands next to the
\* capacity ("ssd" for SSD, NVMe and PCIe behind it, "ssd3" for SSD before
\* it, "word" for Storage and Drive, "hard" for Hard), delimited that the capacity is a whole number of TB or one of
\* 256, 512, 1024 and 2048 GB between separators once the token stands
\* between blanks, slashes that it stands between slashes
StorageTokens ==
    {[text |-> "512GB SSD",   marker |-> "ssd",  delimited |-> FALSE, slashes |-> FALSE],
     [text |-> "1TB NVMe",    marker |-> "ssd",  delimited |-> FALSE, slashes |-> FALSE],
     [text |-> "2 TB PCIe",   marker |-> "ssd",  delimited |-> FALSE, slashes |-> FALSE],
     [text |-> "SSD: 256GB",  marker |-> "ssd3", delimited |-> FALSE, slashes |-> FALSE],
     [text |-> "1TB Storage", marker |-> "word", delimited |-> FALSE, slashes |-> FALSE],
     [text |-> "500GB Hard Disk", marker |-> "hard", delimited |-> FALSE, slashes |-> FALSE],
     [text |-> "128GB Drive", marker |-> "word", delimited |-> FALSE, slashes |-> FALSE],
     [text |-> "1TB",         marker |-> "none", delimited |-> TRUE,  slashes |-> FALSE],
     [text |-> "256GB",       marker |-> "none", delimited |-> TRUE,  slashes |-> FALSE],
     [text |-> "16GB/512GB/Win11", marker |-> "none", delimited |-> TRUE, slashes |-> TRUE],
     [text |-> "16GB/500GB/Win11", marker |-> "none", delimited |-> FALSE, slashes |-> TRUE],
     [text |-> "500GB",       marker |-> "none", delimited |-> FALSE, slashes |-> FALSE],
     [text |-> "1.5TB",       marker |-> "none", delimited |-> FALSE, slashes |-> FALSE],
     [text |-> "(1TB)",       marker |-> "none", delimited |-> FALSE, slashes |-> FALSE],
     [text |-> "16GB RAM",    marker |-> "none", delimited |-> FALSE, slashes |-> FALSE],
     [text |-> "",            marker |-> "none", delimited |-> FALSE, slashes |-> FALSE]}

StorageTitle(t) == Join(Join("Laptop", t.text), "Windows 11")

StorageTitles == {StorageTitle(t) : t \in StorageTokens}

\* processor markers with the generation and the model label each stands
\* for, and the absent marker
NoMarker == [text |-> "", gen |-> 0, model |-> "Unknown"]

ISeriesMarkers ==
    {[text |-> "i7-13620H", gen |-> 13, model |-> "i7-13620"],
     [text |-> "i5-8250U",  gen |-> 8,  model |-> "i5-8250"]}

UltraMarkers == {[text |-> "Core Ultra 7 155H", gen |-> 14, model |-> "Ultra 7"]}

RyzenMarkers == {[text |-> "Ryzen 7 7840HS", gen |-> 13, model |-> "Ryzen 7 7840"]}

SnapdragonMarkers ==
    {[text |-> "Snapdragon X Elite", gen |-> 14, model |-> "Snapdragon X Elite"]}

\* the markers in the order i-series, Ultra, Ryzen, Snapdragon, or reversed
OrderedTitle(i, u, r, q, reversed) ==
    IF reversed
    THEN Join("Laptop", Join(Join(q.text, r.text), Join(u.text, i.text)))
    ELSE Join("Laptop", Join(Join(i.text, u.text), Join(r.text, q.text)))

OrderedTitles ==
    {OrderedTitle(i, u, r, q, reversed) :
        i \in ISeriesMarkers \cup {NoMarker}, u \in UltraMarkers \cup {NoMarker},
        r \in RyzenMarkers \cup {NoMarker}, q \in SnapdragonMarkers \cup {NoMarker},
        reversed \in BOOLEAN}

\* memory tokens: the magnitude each holds and, for each variant, the
\* templates of its list that match the token between two blanks
MemoryTokens ==
    {[text |-> "",             value |-> 0,   app |-> {},        bb |-> {},  df |-> {}],
     [text |-> "16GB RAM",     value |-> 16,  app |-> {1, 3, 4}, bb |-> {1}, df |-> {3}],
     [text |-> "4GB RAM",      value |-> 4,   app |-> {1, 3, 4}, bb |-> {1}, df |-> {3}],
     [text |-> "32GB DDR5",    value |-> 32,  app |-> {2, 3, 4}, bb |-> {2}, df |-> {2}],
     [text |-> "20GB DDR4",    value |-> 20,  app |-> {2, 3, 4}, bb |-> {2}, df |-> {2}],
     [text |-> "64GB",         value |-> 64,  app |-> {3, 4},    bb |-> {},  df |-> {}],
     [text |-> "/8GB/",        value |-> 8,   app |-> {3, 4},    bb |-> {3}, df |-> {}],
     [text |-> "12 GB Memory", value |-> 12,  app |-> {3, 5},    bb |-> {},  df |-> {}],
     [text |-> "-24GB",        value |-> 24,  app |-> {4, 6},    bb |-> {},  df |-> {}],
     [text |-> "512GB SSD",    value |-> 512, app |-> {3, 4},    bb |-> {},  df |-> {}]}

MemoryTitle(a, b) == Join(Join("Laptop", Join(a.text, b.text)), "Windows 11")

MemoryTitles == {MemoryTitle(a, b) : a \in MemoryTokens, b \in MemoryTokens}

\* resolution tokens: the patterns of the priority table 4K, UHD, QHD+,
\* QHD, WQXGA, FHD+, FHD, 1080p, 1440p, 2160p, HD+, HD that match each, and
\* whether it is the OLED keyword
ResolutionTokens ==
    {[text |-> "",       pats |-> {},       oled |-> FALSE],
     [text |-> "4K",     pats |-> {1},      oled |-> FALSE],
     [text |-> "UHD",    pats |-> {2},      oled |-> FALSE],
     [text |-> "QHD+",   pats |-> {3, 4},   oled |-> FALSE],
     [text |-> "qhd",    pats |-> {4},      oled |-> FALSE],
     [text |-> "WQXGA",  pats |-> {5},      oled |-> FALSE],
     [text |-> "FHD+",   pats |-> {6, 7},   oled |-> FALSE],
     [text |-> "FHD",    pats |-> {7},      oled |-> FALSE],
     [text |-> "1080p",  pats |-> {8},      oled |-> FALSE],
     [text |-> "1440P",  pats |-> {9},      oled |-> FALSE],
     [text |-> "2160p",  pats |-> {10},     oled |-> FALSE],
     [text |-> "HD+",    pats |-> {11, 12}, oled |-> FALSE],
     [text |-> "HD",     pats |-> {12},     oled |-> FALSE],
     [text |-> "OLED",   pats |-> {},       oled |-> TRUE],
     [text |-> "Oled",   pats |-> {},       oled |-> TRUE],
     [text |-> "UHDTV",  pats |-> {},       oled |-> FALSE],
     [text |-> "1080px", pats |-> {},       oled |-> FALSE]}

ResolutionTitle(a, b) == Join(Join("Laptop 15.6\"", Join(a.text, b.text)), "Display")

TokenTitles == {ResolutionTitle(a, b) : a \in ResolutionTokens, b \in ResolutionTokens}

SpecsTitles ==
    CpuTitles \cup RamTitles \cup StorageTitles \cup OrderedTitles \cup MemoryTitles
    \cup TokenTitles

ExtractSpecsVariants ==
    {"extract_specs", "extract_specs_bestbuy", "extract_specs_deal_finder"}

TextFunctions == {"parse_size", "extract_condition"} \cup ExtractSpecsVariants

InitText ==
    /\ fn \in TextFunctions
    /\ arg \in (CASE fn = "parse_size"        -> SizeArgs
                  [] fn = "extract_condition" -> {PyStr(t) : t \in ConditionTitles}
                  [] OTHER                    -> {PyStr(t) : t \in SpecsTitles})
    /\ outcome = "ready"
    /\ result = JNone
    /\ products = <<>>
    /\ current_specs = EmptyDict
    /\ min_specs = EmptyDict
    /\ show_all = FALSE
    /\ country = "CA"
    /\ filter_incomplete = TRUE
    /\ deals = <<>>
    /\ skipped = 0

Analysis_unchanged ==
    UNCHANGED <<products, current_specs, min_specs, show_all, country, filter_incomplete,
                fn, deals, skipped, arg>>

\* result = parse_size(arg): None and '' return 0 at once (if not size_str)
ParseSize ==
    /\ outcome = "ready"
    /\ fn = "parse_size"
    /\ IF arg.ty = "none"
       THEN outcome' = "returned" /\ result' = 0
       ELSE IF parse_size_raises(arg.v)
       THEN outcome' = "raised" /\ UNCHANGED result
       ELSE outcome' = "returned" /\ result' = parse_size(arg.v)
    /\ Analysis_unchanged

\* result = extract_condition(arg)
ExtractCondition ==
    /\ outcome = "ready"
    /\ fn = "extract_condition"
    /\ outcome' = "returned"
    /\ result' = extract_condition(arg.v)
    /\ Analysis_unchanged

\* result = extract_specs(arg) of app.py.  No title of the model holds a
\* capacity that makes parse_size raise
ExtractSpecs ==
    /\ outcome = "ready"
    /\ fn = "extract_specs"
    /\ outcome' = "returned"
    /\ result' = extract_specs(arg.v)
    /\ Analysis_unchanged

\* result = extract_specs(arg) of bestbuy_deal_finder.py
ExtractSpecsBestBuy ==
    /\ outcome = "ready"
    /\ fn = "extract_specs_bestbuy"
    /\ outcome' = "returned"
    /\ result' = extract_specs_bestbuy(arg.v)
    /\ Analysis_unchanged

\* result = extract_specs(arg) of deal_finder.py
ExtractSpecsDealFinder ==
    /\ outcome = "ready"
    /\ fn = "extract_specs_deal_finder"
    /\ outcome' = "returned"
    /\ result' = extract_specs_deal_finder(arg.v)
    /\ Analysis_unchanged

NextText ==
    \/ ParseSize
    \/ ExtractCondition
    \/ ExtractSpecs
    \/ ExtractSpecsBestBuy
    \/ ExtractSpecsDealFinder

SpecText == InitText /\ [][NextText]_vars

-----------------------------------------------------------------------------
(* The state machine of the records scored one at a time in any order: each *)
(* step runs the body of the loop of an analyzer of app.py on one record    *)
(* that is not yet scored, with lists of its own; when all are scored, what *)
(* they hold is put together in the order of the input and sorted.  arg     *)
(* holds the positions in the order they were scored, result what each      *)
(* record came to                                                           *)

\* two records that tie in score and price on the first baseline, one that
\* is no upgrade on it, and one without memory
WorkerProducts ==
    {p \in SeqProducts : p.sku \in {"102", "103", "104", "105"}}

WorkerBaselines ==
    {[cpu_gen |-> 10, ram |-> 16, storage |-> 512], [cpu_gen |-> 10, ram |-> 16]}

WorkerMinSpecs == {EmptyDict, [ram |-> 32, storage |-> 1024]}

InitWorkers ==
    /\ fn \in {"analyze_deals", "analyze_deals_with_filters"}
    /\ products \in SeqsUpTo(WorkerProducts, MaxProducts)
    /\ current_specs \in WorkerBaselines
    /\ show_all \in BOOLEAN
    /\ min_specs \in (IF fn = "analyze_deals_with_filters" THEN WorkerMinSpecs
                      ELSE {EmptyDict})
    /\ country = "CA"
    /\ filter_incomplete = TRUE
    /\ outcome = "ready"
    /\ deals = <<>>
    /\ skipped = 0
    /\ arg = <<>>
    /\ result = [i \in 1..Len(products) |-> JNone]

\* the body of the loop on the record at position i, from empty lists
ScoreOf(i) ==
    IF fn = "analyze_deals"
    THEN StepApp(LoopStart, SpecsTable[Get(products[i], "name", "")],
                 DealApp(products[i], i, current_specs, country,
                         SpecsTable[Get(products[i], "name", "")],
                         ConditionTable[Get(products[i], "name", "")]),
                 current_specs, show_all, filter_incomplete)
    ELSE StepFilters(LoopStart, SpecsTable[Get(products[i], "name", "")],
                     DealFilters(products[i], i, current_specs, country,
                                 SpecsTable[Get(products[i], "name", "")],
                                 ConditionTable[Get(products[i], "name", "")]),
                     min_specs, show_all)

\* a record that is not yet scored is scored
ScoreRecord ==
    /\ outcome = "ready"
    /\ \E i \in 1..Len(products) :
           /\ result[i] = JNone
           /\ result' = [result EXCEPT ![i] = ScoreOf(i)]
           /\ arg' = Append(arg, i)
    /\ UNCHANGED <<products, current_specs, min_specs, show_all, country,
                   filter_incomplete, fn, outcome, deals, skipped>>

\* what the first i records came to, in the order of the input
RECURSIVE Gathered(_, _)
Gathered(res, i) ==
    IF i = 0 THEN LoopStart
    ELSE [deals   |-> Gathered(res, i - 1).deals \o res[i].deals,
          skipped |-> Gathered(res, i - 1).skipped + res[i].skipped,
          raised  |-> Gathered(res, i - 1).raised \/ res[i].raised]

\* all records are scored: the deals are put together and sorted
SortScored ==
    /\ outcome = "ready"
    /\ \A i \in 1..Len(products) : result[i] # JNone
    /\ \E r \in {SortAfter(Gathered(result, Len(products)))} :
           IF r.raised
           THEN outcome' = "raised" /\ UNCHANGED <<deals, skipped>>
           ELSE outcome' = "returned" /\ deals' = r.deals /\ skipped' = r.skipped
    /\ Inputs_unchanged

NextWorkers ==
    \/ ScoreRecord
    \/ SortScored

SpecWorkers == InitWorkers /\ [][NextWorkers]_vars

-----------------------------------------------------------------------------
(* Properties of the ranking *)

Returned == outcome = "returned"

AppAnalyzers == {"analyze_deals", "analyze_deals_with_filters"}

\* the positions in the input of the records the output holds
Positions == {deals[i].pos : i \in 1..Len(deals)}

\* extract_specs of the title of the record at position i of the input
ProductSpecs(i) == SpecsTable[Get(products[i], "name", "")]

\* C1: the sequence returned by each of the four analyzers is ordered by
\* score descending, then price ascending: every adjacent pair (a, b) has
\* a.score > b.score, or a.score = b.score and a.price <= b.price
C1_Sorted ==
    Returned =>
        \A i \in 1..(Len(deals) - 1) :
            \/ deals[i].score > deals[i + 1].score
            \/ /\ deals[i].score = deals[i + 1].score
               /\ deals[i].price.v <= deals[i + 1].price.v

\* three deals come back, the best of them from the end of the input, the
\* other two with one score and rising prices
C1_Witness ==
    /\ Returned
    /\ Len(deals) = 3
    /\ deals[1].pos = 3
    /\ deals[1].score > deals[2].score
    /\ deals[2].score = deals[3].score
    /\ deals[2].price.v < deals[3].price.v
    /\ deals[2].pos > deals[3].pos

\* C2: the ranking is stable: two retained deals with the same score and
\* the same price stand in the output in the order in which their records
\* stood in the input
C2_Stable ==
    Returned =>
        \A i, j \in 1..Len(deals) :
            (/\ i < j
             /\ deals[i].score = deals[j].score
             /\ deals[i].price = deals[j].price) => deals[i].pos < deals[j].pos

\* two different records tie on score and price behind a deal that the sort
\* moved to the front
C2_Witness ==
    /\ Returned
    /\ Len(deals) = 3
    /\ deals[1].pos = 3
    /\ deals[2].score = deals[3].score
    /\ deals[2].price = deals[3].price
    /\ deals[2].name # deals[3].name

\* 1 if the boolean holds, 0 otherwise
Bracket(b) == IF b THEN 1 ELSE 0

\* the comparisons the analyzer in use makes for a deal
BetterOf(d) ==
    IF fn = "analyze_deals" THEN BetterApp(d.specs, current_specs)
    ELSE BetterFilters(d.specs, current_specs)

\* the weighted sum of the six brackets
WeightedSum(b, saving) ==
    2 * Bracket(b.cpu) + 2 * Bracket(b.ram) + Bracket(b.storage) + Bracket(b.screen)
    + Bracket(b.res) + Bracket(saving > 0)

\* C3: the score of every deal of the two analyzers of app.py is
\* 2*[processor better] + 2*[memory better] + [storage better]
\* + [display-size better] + [resolution better] + [savings > 0]
C3_Score ==
    (Returned /\ fn \in AppAnalyzers) =>
        \A i \in 1..Len(deals) :
            deals[i].score = WeightedSum(BetterOf(deals[i]), deals[i].saving)

\* a deal that is better in all five dimensions and has savings: score 8
C3_Witness ==
    /\ Returned
    /\ fn = "analyze_deals_with_filters"
    /\ Len(deals) = 1
    /\ deals[1].score = 8
    /\ deals[1].saving > 0
    /\ Len(deals[1].notes) = 5

\* the six brackets of a deal, from its comparisons b and its savings
BracketsOf(b, saving) == <<b.cpu, b.ram, b.storage, b.screen, b.res, saving > 0>>

Brackets(d) == BracketsOf(BetterOf(d), d.saving)

\* the documented weights: processor, memory, storage, display size,
\* resolution, savings
Weights == <<2, 2, 1, 1, 1, 1>>

\* of the brackets x and y of two candidates, y holds dimension k, x does
\* not, and the two agree in every other dimension
OneMore(x, y, k) ==
    /\ ~x[k]
    /\ y[k]
    /\ \A l \in (1..6) \ {k} : x[l] = y[l]

\* the scores of two candidates with the brackets x and y differ by the
\* weight of the one dimension y has more, if there is one
WeightApart(x, y, score_x, score_y) ==
    \A k \in 1..6 : OneMore(x, y, k) => score_y = score_x + Weights[k]

\* C4: of two candidates that differ only in that one dimension is better in
\* the second and not in the first, the second scores the weight of that
\* dimension more: 2 for processor and memory, 1 for the other four
C4_Monotonic ==
    (Returned /\ fn \in AppAnalyzers) =>
        \A i, j \in 1..Len(deals) :
            WeightApart(Brackets(deals[i]), Brackets(deals[j]),
                        deals[i].score, deals[j].score)

\* two deals that differ in the processor only, with memory better in both
C4_Witness ==
    /\ Returned
    /\ fn = "analyze_deals"
    /\ Len(deals) = 2
    /\ OneMore(Brackets(deals[2]), Brackets(deals[1]), 1)
    /\ Brackets(deals[2])[2]
    /\ deals[1].score = deals[2].score + 2

-----------------------------------------------------------------------------
(* Properties of the filters *)

\* the baseline holds the three entries analyze_deals reads
BaselineComplete == {"cpu_gen", "ram", "storage"} \subseteq DOMAIN current_specs

\* is-upgrade of the record at position i: processor better or memory better
IsUpgradeAt(i) ==
    \/ ProductSpecs(i).cpu_gen > current_specs["cpu_gen"]
    \/ ProductSpecs(i).ram > current_specs["ram"]

\* the record at position i is better in storage and neither in processor
\* nor in memory
OnlyStorageBetterAt(i) ==
    /\ ~IsUpgradeAt(i)
    /\ ProductSpecs(i).storage >= current_specs["storage"]

\* the record at position i is dropped as incomplete: no memory detected
\* while filter_incomplete is set
IncompleteAt(i) == filter_incomplete /\ ProductSpecs(i).ram = 0

\* the output holds one deal for each position of the set S and no other
HoldsExactly(S) == Positions = S /\ Len(deals) = Cardinality(S)

\* C5 as claimed: with show_all false analyze_deals returns exactly the
\* input records whose is-upgrade flag (processor better or memory better)
\* is true
C5_ExactlyUpgrades ==
    (Returned /\ fn = "analyze_deals" /\ ~show_all /\ BaselineComplete) =>
        HoldsExactly({i \in 1..Len(products) : IsUpgradeAt(i)})

\* C5 as amended: with show_all false analyze_deals returns exactly the
\* input records that are not dropped as incomplete and whose is-upgrade
\* flag (processor better or memory better) is true; a record that is only
\* storage-better is not retained
C5_UpgradesOfComplete ==
    (Returned /\ fn = "analyze_deals" /\ ~show_all /\ BaselineComplete) =>
        /\ HoldsExactly({i \in 1..Len(products) : ~IncompleteAt(i) /\ IsUpgradeAt(i)})
        /\ \A i \in 1..Len(products) : OnlyStorageBetterAt(i) => i \notin Positions

\* of three records one is retained, one is better in the processor but is
\* dropped as incomplete, and one is better in storage only
C5_Witness ==
    /\ Returned
    /\ fn = "analyze_deals"
    /\ ~show_all
    /\ BaselineComplete
    /\ Len(products) = 3
    /\ Len(deals) = 1
    /\ \E i \in 1..3 : IncompleteAt(i) /\ IsUpgradeAt(i)
    /\ \E i \in 1..3 : OnlyStorageBetterAt(i)

\* C6: a candidate whose extracted memory is 0 never appears in the output
\* of analyze_deals_with_filters, whatever show_all, the baseline and the
\* minimum configuration are
C6_MemoryDetected ==
    (Returned /\ fn = "analyze_deals_with_filters") =>
        \A i \in 1..Len(products) : ProductSpecs(i).ram = 0 => i \notin Positions

\* with show_all set, a record without detected memory is left out and the
\* record next to it is returned
C6_Witness ==
    /\ Returned
    /\ fn = "analyze_deals_with_filters"
    /\ show_all
    /\ Len(products) = 2
    /\ Len(deals) = 1
    /\ ProductSpecs(1).ram = 0
    /\ ProductSpecs(1).cpu_gen > 0
    /\ skipped = 1

\* the rank of a resolution class on the table of the program
RankOf(resolution) == Get(resolution_rank, resolution, 0)

\* no detected attribute of specs lies below the minimum declared for it
MeetsDeclared(specs, ms) ==
    /\ "ram" \in DOMAIN ms => specs.ram >= ms["ram"]
    /\ ("storage" \in DOMAIN ms /\ specs.storage > 0) => specs.storage >= ms["storage"]
    /\ ("cpu_gen" \in DOMAIN ms /\ specs.cpu_gen > 0) => specs.cpu_gen >= ms["cpu_gen"]
    /\ ("screen_size" \in DOMAIN ms /\ specs.screen_size > 0)
           => specs.screen_size >= ms["screen_size"]
    /\ ("resolution" \in DOMAIN ms /\ RankOf(specs.resolution) > 0)
           => RankOf(specs.resolution) >= RankOf(ms["resolution"])

\* C7: with show_all false no deal returned by analyze_deals_with_filters
\* has detected memory, storage, generation, display size or resolution
\* rank below the declared minimum; with show_all true every candidate with
\* detected memory is returned whatever the minimums are
C7_Minimums ==
    (Returned /\ fn = "analyze_deals_with_filters") =>
        IF show_all
        THEN HoldsExactly({i \in 1..Len(products) : ProductSpecs(i).ram > 0})
        ELSE \A i \in 1..Len(deals) : MeetsDeclared(deals[i].specs, min_specs)

\* with show_all false and minimums declared, one of two records with
\* detected memory is returned and the other is rejected
C7_Witness ==
    /\ Returned
    /\ fn = "analyze_deals_with_filters"
    /\ ~show_all
    /\ DOMAIN min_specs # {}
    /\ Len(products) = 2
    /\ Len(deals) = 1
    /\ \A i \in 1..2 : ProductSpecs(i).ram > 0
    /\ \E i \in 1..2 : ~MeetsDeclared(ProductSpecs(i), min_specs)

\* C8 as claimed: a dimension rejects a candidate only if its minimum is
\* set and the attribute was detected, so a candidate with detected memory
\* that is left out with show_all false lies below a declared minimum, and
\* with an empty minimum configuration every candidate with detected memory
\* is retained
C8_OnlyDeclaredReject ==
    (Returned /\ fn = "analyze_deals_with_filters" /\ ~show_all) =>
        /\ \A i \in 1..Len(products) :
               (ProductSpecs(i).ram > 0 /\ i \notin Positions)
                   => ~MeetsDeclared(ProductSpecs(i), min_specs)
        /\ min_specs = EmptyDict
               => HoldsExactly({i \in 1..Len(products) : ProductSpecs(i).ram > 0})

\* the number of input records dropped as incomplete
Incomplete == Cardinality({i \in 1..Len(products) : IncompleteAt(i)})

\* C9 as claimed: in analyze_deals and in analyze_deals_with_filters the
\* returned deals and the returned count add up to the input records
C9_CountsAllDropped ==
    (Returned /\ fn \in AppAnalyzers) => Len(deals) + skipped = Len(products)

\* C9 as amended: in analyze_deals_with_filters the returned deals and the
\* returned count add up to the input records for every show_all; the count
\* of analyze_deals is the number of records dropped as incomplete, so the
\* two add up to the input records when show_all is set and to no more than
\* that otherwise
C9_Count ==
    /\ (Returned /\ fn = "analyze_deals_with_filters")
           => Len(deals) + skipped = Len(products)
    /\ (Returned /\ fn = "analyze_deals") =>
           /\ skipped = Incomplete
           /\ Len(deals) + skipped <= Len(products)
           /\ show_all => Len(deals) + skipped = Len(products)

\* analyze_deals returns one of three records, counts the incomplete one
\* and leaves the third, no upgrade, uncounted
C9_Witness ==
    /\ Returned
    /\ fn = "analyze_deals"
    /\ ~show_all
    /\ Len(products) = 3
    /\ Len(deals) = 1
    /\ skipped = 1

\* the value of the first price field the record holds, 0 if it holds none
FirstPresent(p) ==
    IF "priceWithoutEhf" \in DOMAIN p THEN p["priceWithoutEhf"]
    ELSE IF "customerPrice" \in DOMAIN p THEN p["customerPrice"]
    ELSE IF "price" \in DOMAIN p THEN p["price"]
    ELSE JNum(0)

\* a compound value is replaced by its customerPrice, 0 if it has none
Unwrapped(price) ==
    IF price.ty = "dict" THEN Get(price.v, "customerPrice", JNum(0)) ELSE price

\* C10 as claimed: the price of a deal of the analyzers of app.py is the
\* value of the first field present in the record in the order
\* priceWithoutEhf, customerPrice, price, a compound value replaced by its
\* customerPrice (0 if missing), and 0 if no field is present
C10_FirstPresentPrice ==
    (Returned /\ fn \in AppAnalyzers) =>
        \A i \in 1..Len(deals) :
            deals[i].price = Unwrapped(FirstPresent(products[deals[i].pos]))

-----------------------------------------------------------------------------
(* Properties of the deal of one record *)

\* the raw record a deal was built from
RecordOf(d) == products[d.pos]

\* the record is one of the Amazon source, which only deal_finder.py knows
IsAmazon(p) == fn = "analyze_deals_deal_finder" /\ Get(p, "source", "bestbuy") = "amazon"

\* the url the record supplies, '' if it supplies none
OwnUrl(p) == IF IsAmazon(p) THEN Get(p, "url", "") ELSE Get(p, "seoUrl", "")

IsAbsolute(u) == Len(u) >= 4 /\ SubSeq(u, 1, 4) = "http"

\* the store whose pages the analyzer links to
StoreOf(p) ==
    IF IsAmazon(p) THEN "amazon"
    ELSE IF fn \in AppAnalyzers /\ country = "US" THEN "us"
    ELSE "ca"

\* the address of the store, and its url template filled with an identifier
StoreBase(store) ==
    CASE store = "amazon" -> "https://www.amazon.ca"
      [] store = "us"     -> "https://www.bestbuy.com"
      [] store = "ca"     -> "https://www.bestbuy.ca"

SkuTemplate(store, sku) ==
    CASE store = "amazon" -> StoreBase(store) \o "/dp/" \o sku
      [] store = "us"     -> StoreBase(store) \o "/site/" \o sku \o ".p?skuId=" \o sku
      [] store = "ca"     -> StoreBase(store) \o "/en-ca/product/" \o sku

\* C11 as claimed: the url of a deal is the record's own url whenever that
\* url is absolute, and in every other case the store's template filled
\* with the stock-keeping identifier
C11_OwnOrSkuTemplate ==
    (Returned /\ fn \in Analyzers) =>
        \A i \in 1..Len(deals) :
            deals[i].url = IF IsAbsolute(OwnUrl(RecordOf(deals[i])))
                           THEN OwnUrl(RecordOf(deals[i]))
                           ELSE SkuTemplate(StoreOf(RecordOf(deals[i])), deals[i].sku)

\* the url of a deal whose record supplies no absolute url: a relative url
\* goes behind the address of the Canadian store; the template filled with
\* the identifier is used by the US store whenever there is an identifier
\* and by the Canadian store for a record without url; app.py falls back
\* on the record's url (US) or on '#' (CA) when there is no identifier;
\* an Amazon record's url field is taken as it is
UrlWhenNotAbsolute(store, own, sku, has_url) ==
    CASE store = "amazon" -> IF has_url THEN own ELSE SkuTemplate(store, sku)
      [] store = "us"     -> IF sku # "" THEN SkuTemplate(store, sku) ELSE own
      [] store = "ca"     ->
           IF own # "" THEN StoreBase(store) \o own
           ELSE IF sku = "" /\ fn \in AppAnalyzers THEN "#"
           ELSE SkuTemplate(store, sku)

\* C11 as amended: the url of a deal is the record's own url whenever that
\* url is absolute; otherwise a relative url of the record is appended to
\* the address of the Canadian store, and the store's template filled with
\* the identifier is used when the record has no url (Canadian store) or
\* has an identifier (US store), with the fallbacks of UrlWhenNotAbsolute
C11_Url ==
    (Returned /\ fn \in Analyzers) =>
        \A i \in 1..Len(deals) :
            deals[i].url =
                IF IsAbsolute(OwnUrl(RecordOf(deals[i]))) /\ ~IsAmazon(RecordOf(deals[i]))
                THEN OwnUrl(RecordOf(deals[i]))
                ELSE UrlWhenNotAbsolute(StoreOf(RecordOf(deals[i])),
                                        OwnUrl(RecordOf(deals[i])), deals[i].sku,
                                        "url" \in DOMAIN RecordOf(deals[i]))

\* app.py links a record with a relative url and an identifier to the
\* Canadian store by its url, and not by the template
C11_Witness ==
    /\ Returned
    /\ fn = "analyze_deals"
    /\ country = "CA"
    /\ Len(deals) = 1
    /\ deals[1].sku = "301"
    /\ OwnUrl(RecordOf(deals[1])) = "/en-ca/product/laptop/301"
    /\ deals[1].url = "https://www.bestbuy.ca/en-ca/product/laptop/301"
    /\ deals[1].url # SkuTemplate("ca", "301")

\* the record holds none of the price fields the analyzer in use reads
NoPrice(p) ==
    CASE fn \in AppAnalyzers -> DOMAIN p \cap {"priceWithoutEhf", "customerPrice", "price"} = {}
      [] IsAmazon(p)         -> "price" \notin DOMAIN p
      [] OTHER               -> "priceWithoutEhf" \notin DOMAIN p

\* the specification record of a title in which nothing is detected
Sentinel ==
    IF fn \in AppAnalyzers
    THEN [cpu_gen |-> 0, cpu_model |-> "Unknown", ram |-> 0, storage |-> 0,
          gpu |-> "Integrated", screen_size |-> 0, resolution |-> "Unknown"]
    ELSE [cpu_gen |-> 0, cpu_model |-> "Unknown", ram |-> 0, storage |-> 0,
          gpu |-> "Integrated"]

\* the score of a deal without the point for savings
ScoreWithoutSavings(d) ==
    IF fn \in AppAnalyzers THEN WeightedSum(BetterOf(d), 0)
    ELSE 2 * Bracket(d.specs.cpu_gen > current_specs["cpu_gen"])
         + 2 * Bracket(d.specs.ram > current_specs["ram"])
         + Bracket(d.specs.storage >= current_specs["storage"])

\* the baseline holds what the analyzer in use reads without a default
BaselineGiven == fn = "analyze_deals_with_filters" \/ BaselineComplete

\* C12: with the baseline given, each of the four analyzers returns whatever
\* optional fields its records lack, and a deal of a record without price
\* has price 0, of a record without savings has savings 0 and no point for
\* savings in its score, of a record without title has the empty title and
\* the all-sentinel specification record, and of a record without
\* identifier has the empty identifier
C12_MissingFields ==
    (outcome # "ready" /\ fn \in Analyzers /\ BaselineGiven) =>
        /\ outcome = "returned"
        /\ \A i \in 1..Len(deals) :
               /\ NoPrice(RecordOf(deals[i])) => deals[i].price = JNum(0)
               /\ "saving" \notin DOMAIN RecordOf(deals[i])
                      => /\ deals[i].saving = 0
                         /\ deals[i].score = ScoreWithoutSavings(deals[i])
               /\ "name" \notin DOMAIN RecordOf(deals[i])
                      => deals[i].name = "" /\ deals[i].specs = Sentinel
               /\ DOMAIN RecordOf(deals[i]) \cap {"sku", "skuId", "asin"} = {}
                      => deals[i].sku = ""

\* analyze_deals returns the deal of the empty record, and of two empty
\* records both deals
C12_Witness ==
    /\ Returned
    /\ fn = "analyze_deals"
    /\ products = <<EmptyDict, EmptyDict>>
    /\ Len(deals) = 2
    /\ deals[1].price = JNum(0)
    /\ deals[1].specs = Sentinel
    /\ deals[1].url = "#"

\* C13 as claimed: a call of analyze_deals or analyze_deals_with_filters
\* with a baseline that lacks its generation, memory or storage entry ends
\* in an error and returns no deals
C13_MissingBaselineFails ==
    (outcome # "ready" /\ fn \in AppAnalyzers /\ ~BaselineComplete) =>
        outcome = "raised" /\ deals = <<>>

-----------------------------------------------------------------------------
(* Properties of the text functions *)

\* the gigabytes of the magnitude m before what u holds
Gigabytes(m, u) ==
    CASE u.unit = "TB" -> m.tb
      [] u.unit = "GB" -> m.gb
      [] OTHER         -> 0

\* the value of the next whole number above the magnitude m
GigabytesRoundedUp(m, u) ==
    CASE u.unit = "TB" -> (m.gb + 1) * 1024
      [] u.unit = "GB" -> m.gb + 1
      [] OTHER         -> 0

\* parse_size ran on the magnitude m followed by u, and returned
ParsedSize(m, u) ==
    fn = "parse_size" /\ Returned /\ arg = PyStr(m.text \o u.text)

ZeroArgs ==
    {JNone, PyStr("")}
    \cup {PyStr(n \o u.text) : n \in NoMagnitudes, u \in Units}
    \cup {PyStr(m.text \o u.text) : m \in Magnitudes, u \in {v \in Units : v.unit = "none"}}

\* C15 as claimed: parse_size returns for every argument, its result is a
\* natural number, and it is 0 for None, for the empty string, for a unit
\* without numeric magnitude and for a token without recognised unit
C15_Total ==
    (fn = "parse_size" /\ outcome # "ready") =>
        /\ outcome = "returned"
        /\ result \in Nat
        /\ arg \in ZeroArgs => result = 0

ConditionLabels ==
    {"New", "Open Box", "Refurbished", "Refurbished (Excellent)",
     "Refurbished (Good)", "Refurbished (Fair)"}

\* extract_condition ran on the title of the parts n, o, r, g and returned
Classified(n, o, r, g) ==
    fn = "extract_condition" /\ Returned /\ arg = PyStr(ConditionTitle(n, o, r, g))

\* C16: a title with the refurbished keyword, in any case, gets a label
\* that starts with Refurbished, also next to open box; a title with open
\* box and no refurbished keyword gets Open Box, also next to New; every
\* other title gets New; the label is always one of the six
C16_ConditionPriority ==
    \A n \in NewParts, o \in OpenBoxParts, r \in RefurbishedParts, g \in GradeParts :
        Classified(n, o, r, g) =>
            /\ result \in ConditionLabels
            /\ r \in RefurbishedWords => StartsWith(result, "Refurbished")
            /\ (r \notin RefurbishedWords /\ o \in OpenBoxWords) => result = "Open Box"
            /\ (r \notin RefurbishedWords /\ o \notin OpenBoxWords) => result = "New"

\* a refurbished title that also says open box and new
C16_Witness ==
    /\ Classified("New", "OPEN BOX", "Refurbished", "(Good)")
    /\ result = "Refurbished (Good)"

\* one of the three extract_specs ran on the title of these parts and returned
Extracted(i, u, r, q, o) ==
    fn \in ExtractSpecsVariants /\ Returned /\ arg = PyStr(CpuTitle(i, u, r, q, o))

\* C17 as claimed: a title with an Ultra marker and no i-series marker has
\* generation 14 in all three variants, whatever else it holds
C17_UltraIs14 ==
    \A u \in UltraParts \ {""}, r \in RyzenParts, q \in SnapdragonParts, o \in NumericParts :
        Extracted("", u, r, q, o) => result.cpu_gen = 14

\* the Ryzen marker r is one the variant reads: Ryzen d dddd, and in
\* deal_finder.py also Ryzen AI d ddd
RyzenRead(r) ==
    \/ r = "Ryzen 7 7840HS"
    \/ r = "Ryzen AI 9 365" /\ fn = "extract_specs_deal_finder"

\* C17 as amended: a title with an Ultra marker, no i-series marker and no
\* Ryzen marker the variant reads has generation 14 in all three variants,
\* whatever else it holds
C17_UltraWithoutRyzenIs14 ==
    \A u \in UltraParts \ {""}, r \in RyzenParts, q \in SnapdragonParts, o \in NumericParts :
        (Extracted("", u, r, q, o) /\ ~RyzenRead(r)) => result.cpu_gen = 14

\* app.py: Ultra next to a Ryzen AI marker it does not read, a Snapdragon
\* marker and other numbers
C17_Witness ==
    /\ fn = "extract_specs"
    /\ Extracted("", "ULTRA5", "Ryzen AI 9 365", "Snapdragon X Elite",
                 "16GB RAM 512GB SSD 15.6\" 2024")
    /\ result.cpu_gen = 14

MemorySizes == {8, 12, 16, 24, 32, 48, 64, 96, 128}

\* C18: extract_specs of app.py stores no memory value other than 0 and
\* the nine known sizes, whatever magnitudes the title holds
C18_ValidMemory ==
    (fn = "extract_specs" /\ Returned) => result.ram \in {0} \cup MemorySizes

\* 4 GB is captured first and rejected, 32 GB is stored
C18_Witness ==
    /\ fn = "extract_specs"
    /\ Returned
    /\ arg = PyStr(RamTitle("4GB RAM", "32GB DDR5"))
    /\ result.ram = 32

\* one of the three extract_specs ran on the title of the capacity token t
\* and returned
ExtractedStorage(t) ==
    fn \in ExtractSpecsVariants /\ Returned /\ arg = PyStr(StorageTitle(t))

\* C19 as claimed: storage is non-zero only when the title holds a capacity
\* next to one of the markers SSD, NVMe, PCIe, Storage and Drive
C19_MarkerOnly ==
    \A t \in StorageTokens :
        (ExtractedStorage(t) /\ result.storage # 0) => t.marker \in {"ssd", "ssd3", "word"}

\* what the variant that ran reads as storage
StorageRead(t) ==
    CASE fn = "extract_specs"         -> t.marker \in {"ssd", "ssd3", "word", "hard"}
                                         \/ t.delimited
      [] fn = "extract_specs_bestbuy" -> t.marker = "ssd" \/ t.slashes
      [] OTHER                        -> t.marker = "ssd"

\* C19 as amended: storage is non-zero only when the title holds a capacity
\* before SSD, NVMe or PCIe; or, in app.py, a capacity behind SSD or before
\* Storage, Hard or Drive, or a whole number of TB or one of 256, 512, 1024
\* and 2048 GB between separators; or, in bestbuy_deal_finder.py, a capacity
\* between slashes
C19_StorageRead ==
    \A t \in StorageTokens :
        (ExtractedStorage(t) /\ result.storage # 0) => StorageRead(t)

\* app.py reads a bare 1TB between blanks as storage
C19_Witness ==
    /\ fn = "extract_specs"
    /\ ExtractedStorage([text |-> "1TB", marker |-> "none", delimited |-> TRUE,
                         slashes |-> FALSE])
    /\ result.storage = 1024

-----------------------------------------------------------------------------
(* Properties of the storage comparison *)

\* the deal carries a note that begins with pre
Noted(d, pre) == \E k \in 1..Len(d.notes) : StartsWith(d.notes[k], pre)

\* what of the score the other five dimensions leave to storage
StoragePoint(d) ==
    d.score - 2 * Bracket(Noted(d, "CPU+")) - 2 * Bracket(Noted(d, "RAM+"))
    - Bracket(Noted(d, "Screen+")) - Bracket(Noted(d, "Res+")) - Bracket(d.saving > 0)

\* the storage of the baseline, 0 where analyze_deals_with_filters finds none
BaselineStorage == Get(current_specs, "storage", 0)

\* the deal is noted and scored as storage-better exactly if better holds
StorageBetterIs(d, better) ==
    /\ Noted(d, "Storage+") <=> better
    /\ StoragePoint(d) = Bracket(better)

\* C20 as claimed: in each of the four analyzers a deal is storage-better,
\* and has the storage point, exactly when its storage is at least the
\* baseline's, both being 0 included
C20_StorageAtLeast ==
    Returned =>
        \A i \in 1..Len(deals) :
            StorageBetterIs(deals[i], deals[i].specs.storage >= BaselineStorage)

\* C20 as amended: so it is in analyze_deals of the three variants; in
\* analyze_deals_with_filters a deal is storage-better exactly when its
\* storage was detected (> 0) and is at least the baseline's
C20_StorageAtLeastWhenDetected ==
    Returned =>
        \A i \in 1..Len(deals) :
            StorageBetterIs(deals[i],
                            /\ deals[i].specs.storage >= BaselineStorage
                            /\ (fn = "analyze_deals_with_filters" => deals[i].specs.storage > 0))

\* analyze_deals_with_filters returns a deal without detected storage for a
\* baseline of storage 0: it has neither the note nor the point
C20_Witness ==
    /\ Returned
    /\ fn = "analyze_deals_with_filters"
    /\ "storage" \in DOMAIN current_specs
    /\ current_specs["storage"] = 0
    /\ \E i \in 1..Len(deals) :
           /\ deals[i].specs.storage = 0
           /\ ~Noted(deals[i], "Storage+")
           /\ StoragePoint(deals[i]) = 0

\* C21 as claimed: in each of the four analyzers a deal carries a Storage-
\* note exactly when its storage is detected (> 0) and less than the
\* baseline's, and never both a Storage+ and a Storage- note
C21_StorageWorseNote ==
    Returned =>
        \A i \in 1..Len(deals) :
            /\ Noted(deals[i], "Storage-") <=>
                   (deals[i].specs.storage > 0 /\ deals[i].specs.storage < BaselineStorage)
            /\ ~(Noted(deals[i], "Storage+") /\ Noted(deals[i], "Storage-"))

-----------------------------------------------------------------------------
(* Properties of the resolution comparison *)

\* the table of the claim
RankClaimed ==
    ("HD" :> 1) @@ ("HD+" :> 2) @@ ("FHD" :> 3) @@ ("OLED" :> 4) @@ ("QHD" :> 5)
    @@ ("WQXGA" :> 5) @@ ("QHD+" :> 6) @@ ("4K UHD" :> 7)

\* the table with FHD+ at the rank of OLED
RankWithFhdPlus == RankClaimed @@ ("FHD+" :> 4)

\* the label of the baseline, '' if it has none
BaselineLabel == Get(current_specs, "resolution", "")

\* the deal is noted as resolution-better exactly when its class has a rank
\* on the table and the rank is above the baseline's; said of a baseline
\* whose label is on the table and, whatever the baseline, of a deal
\* without detected resolution
ResolutionBetterBy(d, table) ==
    (BaselineLabel \in DOMAIN table \/ d.specs.resolution = "Unknown") =>
        (Noted(d, "Res+") <=>
            /\ d.specs.resolution \in DOMAIN table
            /\ table[d.specs.resolution] > Get(table, BaselineLabel, 0))

\* C22 as claimed: in the two analyzers of app.py a deal is resolution-
\* better exactly when its class is detected and ranks above the baseline's
\* on HD=1, HD+=2, FHD=3, OLED=4, QHD=WQXGA=5, QHD+=6, 4K UHD=7, and
\* never when its resolution is Unknown
C22_ResolutionRank ==
    (Returned /\ fn \in AppAnalyzers) =>
        \A i \in 1..Len(deals) : ResolutionBetterBy(deals[i], RankClaimed)

\* C22 as amended: the same on the table that also ranks FHD+ at 4
C22_ResolutionRankWithFhdPlus ==
    (Returned /\ fn \in AppAnalyzers) =>
        \A i \in 1..Len(deals) : ResolutionBetterBy(deals[i], RankWithFhdPlus)

\* a deal of class FHD+ is resolution-better than the baseline FHD
C22_Witness ==
    /\ Returned
    /\ fn \in AppAnalyzers
    /\ BaselineLabel = "FHD"
    /\ \E i \in 1..Len(deals) :
           deals[i].specs.resolution = "FHD+" /\ Noted(deals[i], "Res+")

\* a deal without detected resolution against a baseline label that is not
\* on the table
C22_WitnessUnknown ==
    /\ Returned
    /\ fn \in AppAnalyzers
    /\ BaselineLabel = "Retina"
    /\ \E i \in 1..Len(deals) :
           deals[i].specs.resolution = "Unknown" /\ ~Noted(deals[i], "Res+")

-----------------------------------------------------------------------------
(* Properties of the processor, memory and resolution extraction *)

\* the last of the markers i-series, Ultra and Ryzen that the title holds
LastOfThree(i, u, r) ==
    IF r # NoMarker THEN r ELSE IF u # NoMarker THEN u ELSE i

\* one of the three extract_specs ran on the title of these markers, in this
\* order or reversed, and returned what the marker m stands for
ReadsMarker(i, u, r, q, reversed, m) ==
    (fn \in ExtractSpecsVariants /\ Returned
        /\ arg = PyStr(OrderedTitle(i, u, r, q, reversed)))
    => (result.cpu_gen = m.gen /\ result.cpu_model = m.model)

\* C23 as claimed: in all three variants generation and model label are
\* those of the last of i-series, Ultra and Ryzen that the title holds,
\* wherever the markers stand in it
C23_LastOfThree ==
    \A i \in ISeriesMarkers \cup {NoMarker}, u \in UltraMarkers \cup {NoMarker},
       r \in RyzenMarkers \cup {NoMarker}, q \in SnapdragonMarkers \cup {NoMarker},
       reversed \in BOOLEAN :
        ReadsMarker(i, u, r, q, reversed, LastOfThree(i, u, r))

\* C23 as amended: so it is in app.py and bestbuy_deal_finder.py; in
\* deal_finder.py a fourth pattern, Snapdragon X, is applied after Ryzen and
\* sets generation 14
C23_LastOfFour ==
    \A i \in ISeriesMarkers \cup {NoMarker}, u \in UltraMarkers \cup {NoMarker},
       r \in RyzenMarkers \cup {NoMarker}, q \in SnapdragonMarkers \cup {NoMarker},
       reversed \in BOOLEAN :
        ReadsMarker(i, u, r, q, reversed,
                    IF fn = "extract_specs_deal_finder" /\ q # NoMarker
                    THEN q ELSE LastOfThree(i, u, r))

\* app.py reads Ryzen from a title that names it first and the i-series last
C23_Witness ==
    /\ fn = "extract_specs"
    /\ Returned
    /\ arg = PyStr("Laptop Ryzen 7 7840HS Core Ultra 7 155H i7-13620H")
    /\ result.cpu_gen = 13
    /\ result.cpu_model = "Ryzen 7 7840"

\* the templates of the variant that ran which match the token t
Templates(t) ==
    CASE fn = "extract_specs"         -> t.app
      [] fn = "extract_specs_bestbuy" -> t.bb
      [] OTHER                        -> t.df

\* the magnitude template j captures in the title of a and b: that of the
\* leftmost token it matches
Captured(a, b, j) == IF j \in Templates(a) THEN a.value ELSE b.value

\* the templates that match the title of a and b
Matching(a, b) == Templates(a) \cup Templates(b)

\* the first of the templates js
FirstOf(js) == CHOOSE j \in js : \A k \in js : j <= k

\* one of the three extract_specs ran on the title of the memory tokens a
\* and b and returned
ExtractedMemory(a, b) ==
    fn \in ExtractSpecsVariants /\ Returned /\ arg = PyStr(MemoryTitle(a, b))

\* C24 as claimed: in all three variants the memory value is the magnitude
\* that the first template to match the title captures
C24_FirstMatch ==
    \A a \in MemoryTokens, b \in MemoryTokens :
        ExtractedMemory(a, b) =>
            result.ram = IF Matching(a, b) = {} THEN 0
                         ELSE Captured(a, b, FirstOf(Matching(a, b)))

\* the templates whose captured magnitude the variant that ran stores: in
\* app.py those that capture a known size
Storing(a, b) ==
    {j \in Matching(a, b) : fn = "extract_specs" => Captured(a, b, j) \in MemorySizes}

\* C24 as amended: so it is in the two command-line variants; in app.py the
\* memory value is the magnitude captured by the first template that
\* matches the title with a known size, a template that captures another
\* magnitude being passed over
C24_FirstStoredMatch ==
    \A a \in MemoryTokens, b \in MemoryTokens :
        ExtractedMemory(a, b) =>
            result.ram = IF Storing(a, b) = {} THEN 0
                         ELSE Captured(a, b, FirstOf(Storing(a, b)))

\* app.py passes over the 4 GB of the first template and stores the 32 GB
\* of the second
C24_Witness ==
    /\ fn = "extract_specs"
    /\ Returned
    /\ arg = PyStr("Laptop 4GB RAM 32GB DDR5 Windows 11")
    /\ result.ram = 32

\* the classes of the patterns 4K, UHD, QHD+, QHD, WQXGA, FHD+, FHD, 1080p,
\* 1440p, 2160p, HD+, HD
PriorityClasses ==
    <<"4K UHD", "4K UHD", "QHD+", "QHD", "WQXGA", "FHD+", "FHD", "FHD", "QHD",
      "4K UHD", "HD+", "HD">>

\* extract_specs of app.py ran on the title of the resolution tokens a and b
\* and returned
ExtractedResolution(a, b) ==
    fn = "extract_specs" /\ Returned /\ arg = PyStr(ResolutionTitle(a, b))

\* C25: the resolution class is that of the first pattern of the priority
\* table that matches the title; it is OLED only if the title holds the
\* OLED keyword and none of the patterns matches, and Unknown otherwise
C25_ResolutionPriority ==
    \A a \in ResolutionTokens, b \in ResolutionTokens :
        ExtractedResolution(a, b) =>
            result.resolution =
                IF a.pats \cup b.pats # {} THEN PriorityClasses[FirstOf(a.pats \cup b.pats)]
                ELSE IF a.oled \/ b.oled THEN "OLED"
                ELSE "Unknown"

\* a title that names OLED before 1080p has the class FHD
C25_Witness ==
    /\ fn = "extract_specs"
    /\ Returned
    /\ arg = PyStr("Laptop 15.6\" OLED 1080p Display")
    /\ result.resolution = "FHD"

\* the label of a refurbished title with the qualifier g
GradedLabel(g) ==
    CASE g \in {"(Excellent)", "Excellent"} -> "Refurbished (Excellent)"
      [] g \in {"(Good)", "GOOD"}           -> "Refurbished (Good)"
      [] g \in {"(Fair)", "Fair"}           -> "Refurbished (Fair)"
      [] OTHER                              -> "Refurbished"

\* C26 as claimed: a title with the refurbished keyword gets the graded
\* label of the qualifier excellent, good or fair it holds, and the bare
\* label Refurbished only when it holds none of them
C26_GradedLabel ==
    \A n \in NewParts, o \in OpenBoxParts, r \in RefurbishedWords, g \in GradeParts :
        Classified(n, o, r, g) => result = GradedLabel(g)

-----------------------------------------------------------------------------
(* Properties of two runs *)

\* the positions in the input of the records the deals ds stand for
RetainedIn(ds) == {ds[i].pos : i \in 1..Len(ds)}

\* the run r retains the records of this run and skips as many
SameRetained(r) == RetainedIn(r.deals) = Positions /\ r.skipped = skipped

\* a record that the run r and this run both retain has the same score,
\* notes and is-upgrade flag in both
SameScoring(r) ==
    \A i \in 1..Len(deals), k \in 1..Len(r.deals) :
        deals[i].pos = r.deals[k].pos =>
            /\ deals[i].score = r.deals[k].score
            /\ deals[i].notes = r.deals[k].notes
            /\ deals[i].is_upgrade = r.deals[k].is_upgrade

\* C27: a run of analyze_deals_with_filters on another baseline retains the
\* same records and skips as many, and a run on other minimum requirements
\* gives the records both runs retain the same score, notes and is-upgrade
\* flag
C27_BaselineAndMinimumsApart ==
    (Returned /\ fn = "analyze_deals_with_filters") =>
        /\ \A cs \in Baselines :
               \E r \in {analyze_deals_with_filters(products, cs, min_specs, show_all,
                                                    country)} : SameRetained(r)
        /\ \A ms \in MinSpecs :
               \E r \in {analyze_deals_with_filters(products, current_specs, ms, show_all,
                                                    country)} : SameScoring(r)

\* a run that skips a record and retains one, whose deals have other scores
\* on another baseline, and which retains other records on other minimums
C27_Witness ==
    /\ Returned
    /\ fn = "analyze_deals_with_filters"
    /\ skipped > 0
    /\ Len(deals) > 0
    /\ \E cs \in Baselines :
           \E r \in {analyze_deals_with_filters(products, cs, min_specs, show_all, country)} :
               \E k \in 1..Len(r.deals) : r.deals[k].score # deals[k].score
    /\ \E ms \in MinSpecs :
           \E r \in {analyze_deals_with_filters(products, current_specs, ms, show_all,
                                                country)} :
               RetainedIn(r.deals) # Positions /\ RetainedIn(r.deals) \cap Positions # {}

-----------------------------------------------------------------------------
(* Properties of the records scored in any order *)

\* the sequential pass of the analyzer of this run over the records ps
Sequential(ps) ==
    IF fn = "analyze_deals"
    THEN analyze_deals(ps, current_specs, show_all, country, filter_incomplete)
    ELSE analyze_deals_with_filters(ps, current_specs, min_specs, show_all, country)

\* the orders of n records
Orders(n) == {f \in [1..n -> 1..n] : \A i, j \in 1..n : f[i] = f[j] => i = j}

\* the records of this run in the order f
Permuted(f) == [k \in 1..Len(products) |-> products[f[k]]]

\* the deal d of a pass over the records in the order f, with the position
\* its record has in this run
Repositioned(d, f) == [d EXCEPT !.pos = f[@]]

\* the deals of the run r, each with the position its record has in this run
DealsOf(r, f) == {Repositioned(r.deals[k], f) : k \in 1..Len(r.deals)}

\* the run r has the scores and prices of this run, place by place
SameKeys(r) ==
    /\ Len(r.deals) = Len(deals)
    /\ \A k \in 1..Len(deals) :
           r.deals[k].score = deals[k].score /\ r.deals[k].price = deals[k].price

\* the sequential pass over the record at position i alone retains it
\* exactly when this run does, and with the same deal
AloneAsHere(i) ==
    \E r \in {Sequential(<<products[i]>>)} :
        /\ ~r.raised
        /\ (Len(r.deals) = 1) = (i \in Positions)
        /\ \A k \in 1..Len(deals) :
               deals[k].pos = i => [r.deals[1] EXCEPT !.pos = i] = deals[k]

\* C28: when the records are scored one at a time in any order, each from
\* empty lists, and the deals then put together and sorted, the output is
\* that of the sequential pass; the deal of a record and whether it is
\* retained are those of a pass over that record alone; and a pass over the
\* records in any other order gives the same deals with the same scores and
\* prices place by place, so that only deals of equal score and price can
\* change places
C28_ScoredIndependently ==
    /\ outcome = "raised" => Sequential(products).raised
    /\ Returned =>
           /\ \E r \in {Sequential(products)} :
                  ~r.raised /\ r.deals = deals /\ r.skipped = skipped
           /\ \A i \in 1..Len(products) : AloneAsHere(i)
           /\ \A f \in Orders(Len(products)) :
                  \E r \in {Sequential(Permuted(f))} :
                      /\ ~r.raised
                      /\ r.skipped = skipped
                      /\ SameKeys(r)
                      /\ DealsOf(r, f) = {deals[k] : k \in 1..Len(deals)}

\* three records are scored last to first, one is skipped, and the two
\* retained tie in score and price, so that the input order decides their
\* places
C28_Witness ==
    /\ Returned
    /\ arg = <<3, 2, 1>>
    /\ skipped = 1
    /\ Len(deals) = 2
    /\ deals[1].score = deals[2].score
    /\ deals[1].price = deals[2].price
    /\ deals[1].sku # deals[2].sku

-----------------------------------------------------------------------------
(* Properties of the score *)

\* the highest score of the analyzer of this run
MaxScore == IF fn \in AppAnalyzers THEN 8 ELSE 6

\* the least score of a deal that is flagged as an upgrade in this run
UpgradeScore == IF fn = "analyze_deals_with_filters" THEN 1 ELSE 2

\* C29: every deal has an integer score from 0 to 8, from 0 to 6 in the
\* two command-line variants; a deal flagged as an upgrade has a score of 2
\* at least under the base policy and of 1 at least under the policy of
\* analyze_deals_with_filters; and with show_all false every deal that an
\* analyze_deals returns has a score of 2 at least
C29_ScoreRange ==
    Returned =>
        \A k \in 1..Len(deals) :
            /\ deals[k].score \in 0..MaxScore
            /\ deals[k].is_upgrade => deals[k].score >= UpgradeScore
            /\ fn # "analyze_deals_with_filters" /\ ~show_all => deals[k].score >= 2

\* analyze_deals of app.py returns, with show_all false, a deal of score 8
C29_Witness ==
    /\ Returned
    /\ fn = "analyze_deals"
    /\ ~show_all
    /\ \E k \in 1..Len(deals) : deals[k].score = 8 /\ deals[k].is_upgrade

\* analyze_deals of app.py returns, with show_all false, a deal of score 2
C29_WitnessLeast ==
    /\ Returned
    /\ fn = "analyze_deals"
    /\ ~show_all
    /\ \E k \in 1..Len(deals) : deals[k].score = 2

\* analyze_deals_with_filters flags as an upgrade a deal of score 1
C29_WitnessFilters ==
    /\ Returned
    /\ fn = "analyze_deals_with_filters"
    /\ \E k \in 1..Len(deals) : deals[k].score = 1 /\ deals[k].is_upgrade

\* a command-line variant returns a deal of score 6
C29_WitnessCli ==
    /\ Returned
    /\ fn \notin AppAnalyzers
    /\ \E k \in 1..Len(deals) : deals[k].score = 6

-----------------------------------------------------------------------------
(* Properties of the url of a deal *)

\* C30: every deal of analyze_deals and of analyze_deals_with_filters of
\* app.py has, for every record and every country, a url that starts with
\* 'http' or is the placeholder '#', never an empty string or a relative
\* path
C30_NavigableUrl ==
    Returned /\ fn \in AppAnalyzers =>
        \A k \in 1..Len(deals) : IsAbsolute(deals[k].url) \/ deals[k].url = "#"

=============================================================================
